---- MODULE Spec2Model ----
(***************************************************************************)
(* Llama-Bench-Reports: the benchmark record model (models/benchmark.js),  *)
(* the submission and deletion routes (routes/api.js), the query layer     *)
(* (db/queries.js) and the SQLite store behind them (db/index.js).         *)
(*                                                                         *)
(* JavaScript and JSON values are records [t, n, s, e]: t is the type tag, *)
(* n the integer of a number (or 1/0 of a boolean), s the characters of a  *)
(* string (a sequence of one-character strings) and e the elements of an   *)
(* array of numbers.                                                       *)
(***************************************************************************)
EXTENDS Integers, Sequences, FiniteSets, TLC

VARIABLES
  rows,      \* the benchmarks table as this connection sees it, in rowid order
  seq,       \* sqlite_sequence: the largest id AUTOINCREMENT has handed out
  now,       \* the wall clock, in seconds
  tx,        \* the POST handler in progress: its body and its transaction
  resp,      \* the last response sent
  assigned,  \* history: the ids of all rows ever committed
  raw,       \* the argument of a single call of a pure function
  out,       \* and its result
  schema     \* the database file: the table's columns, its indexes, the process

vars == <<rows, seq, now, tx, resp, assigned, raw, out, schema>>

-----------------------------------------------------------------------------
(* Bounds of the model *)

\* the AUTOINCREMENT counter is not driven past MaxId
MaxId == 2
\* the wall clock (in seconds) is not driven past MaxClock
MaxClock == 1

-----------------------------------------------------------------------------
(* JavaScript values *)

Num(k) == [t |-> "num", n |-> k, s |-> <<>>, e |-> <<>>]
Str(cs) == [t |-> "str", n |-> 0, s |-> cs, e |-> <<>>]
Bool(b) == [t |-> "bool", n |-> IF b THEN 1 ELSE 0, s |-> <<>>, e |-> <<>>]
Arr(es) == [t |-> "arr", n |-> 0, s |-> <<>>, e |-> es]
Null == [t |-> "null", n |-> 0, s |-> <<>>, e |-> <<>>]
Undefined == [t |-> "undef", n |-> 0, s |-> <<>>, e |-> <<>>]
NaN == [t |-> "nan", n |-> 0, s |-> <<>>, e |-> <<>>]
\* an object literal {} met as the value of a field
Obj == [t |-> "obj", n |-> 0, s |-> <<>>, e |-> <<>>]

Digits == <<"0", "1", "2", "3", "4", "5", "6", "7", "8", "9">>

IsDigit(c) == \E i \in 1..10 : Digits[i] = c

DigitValue(c) == (CHOOSE i \in 1..10 : Digits[i] = c) - 1

IsSpace(c) == c \in {" ", "\n", "\t"}

RECURSIVE NatToChars(_)
NatToChars(k) ==
  IF k < 10 THEN <<Digits[k + 1]>>
  ELSE NatToChars(k \div 10) \o <<Digits[(k % 10) + 1]>>

\* Number.prototype.toString on an integer
IntToChars(k) == IF k < 0 THEN <<"-">> \o NatToChars(0 - k) ELSE NatToChars(k)

AllDigits(cs) == Len(cs) > 0 /\ \A i \in 1..Len(cs) : IsDigit(cs[i])

RECURSIVE DigitsToNat(_)
DigitsToNat(cs) ==
  IF cs = <<>> THEN 0
  ELSE 10 * DigitsToNat(SubSeq(cs, 1, Len(cs) - 1)) + DigitValue(cs[Len(cs)])

RECURSIVE TrimLeft(_)
TrimLeft(cs) ==
  IF cs # <<>> /\ IsSpace(cs[1]) THEN TrimLeft(Tail(cs)) ELSE cs

RECURSIVE TrimRight(_)
TrimRight(cs) ==
  IF cs # <<>> /\ IsSpace(cs[Len(cs)])
  THEN TrimRight(SubSeq(cs, 1, Len(cs) - 1)) ELSE cs

\* String.prototype.trim
Trim(cs) == TrimRight(TrimLeft(cs))

\* an optionally signed decimal integer literal
IsIntegerText(cs) ==
  IF cs # <<>> /\ cs[1] = "-" THEN AllDigits(Tail(cs)) ELSE AllDigits(cs)

IntegerTextValue(cs) ==
  IF cs[1] = "-" THEN 0 - DigitsToNat(Tail(cs)) ELSE DigitsToNat(cs)

\* ToNumber of a string: blank is 0, an integer literal its value, else NaN
StringToNumber(cs) ==
  LET u == Trim(cs) IN
  IF u = <<>> THEN Num(0)
  ELSE IF IsIntegerText(u) THEN Num(IntegerTextValue(u))
  ELSE NaN

\* ToNumber, as the relational operators apply it to an operand
ToNumber(v) ==
  CASE v.t = "num" -> v
    [] v.t = "nan" -> NaN
    [] v.t = "bool" -> Num(v.n)
    [] v.t = "null" -> Num(0)
    [] v.t = "undef" -> NaN
    [] v.t = "str" -> StringToNumber(v.s)
    [] v.t = "obj" -> NaN
    [] v.t = "arr" -> IF v.e = <<>> THEN Num(0)
                      ELSE IF Len(v.e) = 1 THEN Num(v.e[1])
                      ELSE NaN

\* ToBoolean
Truthy(v) ==
  CASE v.t = "num" -> v.n # 0
    [] v.t = "str" -> v.s # <<>>
    [] v.t = "bool" -> v.n = 1
    [] v.t \in {"null", "undef", "nan"} -> FALSE
    [] v.t \in {"obj", "arr"} -> TRUE

\* a || b
Or(a, b) == IF Truthy(a) THEN a ELSE b

\* a ?? b
Coalesce(a, b) == IF a.t \in {"null", "undef"} THEN b ELSE a

\* v > 0
GreaterThanZero(v) == LET k == ToNumber(v) IN k.t = "num" /\ k.n > 0

\* v === 0
StrictEqualsZero(v) == v.t = "num" /\ v.n = 0

RECURSIVE JoinNumbers(_)
JoinNumbers(es) ==
  IF es = <<>> THEN <<>>
  ELSE IF Len(es) = 1 THEN IntToChars(es[1])
  ELSE IntToChars(es[1]) \o <<",">> \o JoinNumbers(Tail(es))

\* JSON.stringify of a value (strings of the model need no escapes)
JSONStringify(v) ==
  CASE v.t = "num" -> Str(IntToChars(v.n))
    [] v.t = "str" -> Str(<<"\"">> \o v.s \o <<"\"">>)
    [] v.t = "bool" -> IF v.n = 1 THEN Str(<<"t", "r", "u", "e">>)
                       ELSE Str(<<"f", "a", "l", "s", "e">>)
    [] v.t \in {"null", "nan"} -> Str(<<"n", "u", "l", "l">>)
    [] v.t = "arr" -> Str(<<"[">> \o JoinNumbers(v.e) \o <<"]">>)
    [] v.t = "obj" -> Str(<<"{", "}">>)
    [] v.t = "undef" -> Undefined

-----------------------------------------------------------------------------
(* models/benchmark.js *)

\* the keys transformBenchmark reads from a llama-bench object
RawKeys ==
  {"build_commit", "build_number", "test_time", "cpu_info", "gpu_info",
   "backend", "backends", "model_filename", "model_type", "model_size",
   "model_n_params", "n_prompt", "n_gen", "n_depth", "n_batch", "n_ubatch",
   "n_threads", "n_gpu_layers", "n_ctx", "flash_attn", "type_k", "type_v",
   "embeddings", "split_mode", "main_gpu", "avg_ts", "t_s", "stddev_ts",
   "stddev", "samples"}

\* the named parameters of INSERT_BENCHMARK
InsertColumns ==
  {"build_commit", "build_number", "test_time", "cpu_info", "gpu_info",
   "backend", "model_filename", "model_type", "model_size", "model_n_params",
   "test_type", "n_prompt", "n_gen", "n_depth", "n_batch", "n_ubatch",
   "n_threads", "n_gpu_layers", "n_ctx", "flash_attn", "cache_type_k",
   "cache_type_v", "embeddings", "split_mode", "main_gpu",
   "tokens_per_second", "stddev", "samples"}

NoKeys == [k \in RawKeys |-> Undefined]

\* One decoded JSON value handed to transformBenchmark: v is the value and,
\* when it is an object, f maps each key to its value (Undefined = absent).
JsonObject(f) == [v |-> Obj, f |-> f]
JsonPrimitive(v) == [v |-> v, f |-> NoKeys]

\* data.key : a TypeError on null and undefined, undefined on other primitives
CanReadProperty(data) == data.v.t \notin {"null", "undef"}

Prop(data, key) == IF data.v.t = "obj" THEN data.f[key] ELSE Undefined

PP == Str(<<"p", "p">>)
TG == Str(<<"t", "g">>)
PPTG == Str(<<"p", "p", "+", "t", "g">>)

\* mutant: the first branch forgets to look at nGen
getTestTypePromptOnly(nPrompt, nGen) ==
  IF GreaterThanZero(nPrompt) THEN PP
  ELSE IF GreaterThanZero(nGen) /\ (~Truthy(nPrompt) \/ StrictEqualsZero(nPrompt))
  THEN TG
  ELSE Null

getTestType(nPrompt, nGen) ==
  IF GreaterThanZero(nPrompt) /\ (~Truthy(nGen) \/ StrictEqualsZero(nGen))
  THEN PP
  ELSE IF GreaterThanZero(nGen) /\ (~Truthy(nPrompt) \/ StrictEqualsZero(nPrompt))
  THEN TG
  ELSE IF GreaterThanZero(nPrompt) /\ GreaterThanZero(nGen) THEN PPTG
  ELSE Null

\* new Date().toISOString() and SQLite's CURRENT_TIMESTAMP at clock reading k
ToISOString(k) == <<"d">> \o NatToChars(k) \o <<"T">>
CurrentTimestamp(k) == <<"d">> \o NatToChars(k) \o <<" ">>

\* mutant: data.key || null
NumericFieldFalsy(data, key) == Or(Prop(data, key), Null)

\* numeric test-configuration field: data.key ?? null
NumericField(data, key) == Coalesce(Prop(data, key), Null)

\* mutant: data.key || 0
FlagFieldFalsy(data, key) == Or(Prop(data, key), Num(0))

\* flag field: data.key ? 1 : 0
FlagField(data, key) == IF Truthy(Prop(data, key)) THEN Num(1) ELSE Num(0)

\* the record transformBenchmark returns for a value whose properties can be
\* read, at clock reading k
transformBenchmark(data, k) ==
  [build_commit |-> Or(Prop(data, "build_commit"), Null),
   build_number |-> Or(Prop(data, "build_number"), Null),
   test_time |-> Or(Prop(data, "test_time"), Str(ToISOString(k))),
   cpu_info |-> Or(Prop(data, "cpu_info"), Null),
   gpu_info |-> Or(Prop(data, "gpu_info"), Null),
   backend |-> Or(Prop(data, "backend"), Or(Prop(data, "backends"), Null)),
   model_filename |-> Or(Prop(data, "model_filename"), Null),
   model_type |-> Or(Prop(data, "model_type"), Null),
   model_size |-> Or(Prop(data, "model_size"), Null),
   model_n_params |-> Or(Prop(data, "model_n_params"), Null),
   test_type |-> getTestType(Prop(data, "n_prompt"), Prop(data, "n_gen")),
   n_prompt |-> NumericField(data, "n_prompt"),
   n_gen |-> NumericField(data, "n_gen"),
   n_depth |-> NumericField(data, "n_depth"),
   n_batch |-> NumericField(data, "n_batch"),
   n_ubatch |-> NumericField(data, "n_ubatch"),
   n_threads |-> NumericField(data, "n_threads"),
   n_gpu_layers |-> NumericField(data, "n_gpu_layers"),
   n_ctx |-> NumericField(data, "n_ctx"),
   flash_attn |-> FlagField(data, "flash_attn"),
   cache_type_k |-> Or(Prop(data, "type_k"), Null),
   cache_type_v |-> Or(Prop(data, "type_v"), Null),
   embeddings |-> FlagField(data, "embeddings"),
   split_mode |-> Or(Prop(data, "split_mode"), Null),
   main_gpu |-> NumericField(data, "main_gpu"),
   tokens_per_second |-> Or(Prop(data, "avg_ts"), Or(Prop(data, "t_s"), Null)),
   stddev |-> Or(Prop(data, "stddev_ts"), Or(Prop(data, "stddev"), Null)),
   samples |-> IF Truthy(Prop(data, "samples")) THEN JSONStringify(Prop(data, "samples")) ELSE Null]

-----------------------------------------------------------------------------
(* db/index.js: the benchmarks table *)

TextColumns ==
  {"build_commit", "test_time", "cpu_info", "gpu_info", "backend",
   "model_filename", "model_type", "test_type", "cache_type_k",
   "cache_type_v", "split_mode", "samples"}

\* INTEGER and REAL columns (numbers of the model are integers)
NumericColumns == InsertColumns \ TextColumns

Columns == {"id", "created_at"} \cup InsertColumns

\* SQLite's column affinity, applied to a value as it is stored
ApplyAffinity(c, v) ==
  IF v.t = "nan" THEN Null
  ELSE IF c \in TextColumns
  THEN IF v.t = "num" THEN Str(IntToChars(v.n)) ELSE v
  ELSE IF v.t = "str" /\ IsIntegerText(Trim(v.s))
       THEN Num(IntegerTextValue(Trim(v.s))) ELSE v

\* better-sqlite3 binds numbers, strings and null; any other value is a TypeError
Bindable(v) == v.t \in {"num", "nan", "str", "null"}

AllBindable(item) == \A c \in InsertColumns : Bindable(item[c])

\* one column of the table: its name, its declared type and its default
Column(name, type, dflt) == [name |-> name, type |-> type, dflt |-> dflt]

\* the columns of the CREATE TABLE statement of initialize(), in its order
CreateTableColumns ==
  <<Column("id", "INTEGER PRIMARY KEY AUTOINCREMENT", "NULL"),
    Column("created_at", "DATETIME", "CURRENT_TIMESTAMP"),
    Column("build_commit", "TEXT", "NULL"),
    Column("build_number", "INTEGER", "NULL"),
    Column("test_time", "TEXT", "NULL"),
    Column("cpu_info", "TEXT", "NULL"),
    Column("gpu_info", "TEXT", "NULL"),
    Column("backend", "TEXT", "NULL"),
    Column("model_filename", "TEXT", "NULL"),
    Column("model_type", "TEXT", "NULL"),
    Column("model_size", "INTEGER", "NULL"),
    Column("model_n_params", "INTEGER", "NULL"),
    Column("test_type", "TEXT", "NULL"),
    Column("n_prompt", "INTEGER", "NULL"),
    Column("n_gen", "INTEGER", "NULL"),
    Column("n_batch", "INTEGER", "NULL"),
    Column("n_ubatch", "INTEGER", "NULL"),
    Column("n_threads", "INTEGER", "NULL"),
    Column("n_gpu_layers", "INTEGER", "NULL"),
    Column("n_ctx", "INTEGER", "NULL"),
    Column("flash_attn", "INTEGER", "NULL"),
    Column("cache_type_k", "TEXT", "NULL"),
    Column("cache_type_v", "TEXT", "NULL"),
    Column("embeddings", "INTEGER", "NULL"),
    Column("split_mode", "TEXT", "NULL"),
    Column("main_gpu", "INTEGER", "NULL"),
    Column("tokens_per_second", "REAL", "NULL"),
    Column("stddev", "REAL", "NULL"),
    Column("samples", "TEXT", "NULL")>>

\* PRAGMA table_info(benchmarks): columns.map(c => c.name)
ColumnNames(columns) == {columns[i].name : i \in 1..Len(columns)}

\* the database file: d.exists says whether the table benchmarks exists,
\* d.error whether a statement has failed
NoDatabase ==
  [exists |-> FALSE, columns |-> <<>>, indexes |-> {}, rows |-> <<>>,
   error |-> FALSE]

\* CREATE TABLE IF NOT EXISTS benchmarks (...)
CreateTableIfNotExists(d) ==
  IF d.error \/ d.exists THEN d
  ELSE [d EXCEPT !.exists = TRUE, !.columns = CreateTableColumns]

\* CREATE INDEX IF NOT EXISTS name ON benchmarks(column)
CreateIndexIfNotExists(d, name, column) ==
  IF d.error \/ \E i \in d.indexes : i.name = name THEN d
  ELSE IF column \notin ColumnNames(d.columns) THEN [d EXCEPT !.error = TRUE]
  ELSE [d EXCEPT !.indexes = @ \cup {[name |-> name, column |-> column]}]

\* the row r with one more column, holding NULL
WithColumn(r, name) ==
  [c \in DOMAIN r \cup {name} |-> IF c = name THEN Null ELSE r[c]]

\* mutant: the table is rebuilt with the new column and its rows are lost
AlterTableRebuild(d, name, type) ==
  IF d.error THEN d
  ELSE IF name \in ColumnNames(d.columns) THEN [d EXCEPT !.error = TRUE]
  ELSE [d EXCEPT !.columns = Append(@, Column(name, type, "NULL")),
                 !.rows = <<>>]

\* ALTER TABLE benchmarks ADD COLUMN name type: the column is appended and
\* holds NULL in every row; a column of that name is an error
AlterTableAddColumn(d, name, type) ==
  IF d.error THEN d
  ELSE IF name \in ColumnNames(d.columns) THEN [d EXCEPT !.error = TRUE]
  ELSE [d EXCEPT !.columns = Append(@, Column(name, type, "NULL")),
                 !.rows = [i \in 1..Len(@) |-> WithColumn(@[i], name)]]

\* mutant: the column is added without looking at columnNames
MigrateColumnAlways(d, columnNames, name, type) ==
  AlterTableAddColumn(d, name, type)

\* if (!columnNames.includes(name)) database.exec('ALTER TABLE ...')
MigrateColumn(d, columnNames, name, type) ==
  IF name \notin columnNames THEN AlterTableAddColumn(d, name, type) ELSE d

\* mutant: runMigrations before the n_depth migration was written
runMigrationsWithoutDepth(d) ==
  LET columnNames == ColumnNames(d.columns)
      d1 == MigrateColumn(d, columnNames, "n_prompt", "INTEGER")
      d2 == MigrateColumn(d1, columnNames, "n_gen", "INTEGER")
      d3 == MigrateColumn(d2, columnNames, "split_mode", "TEXT")
  IN MigrateColumn(d3, columnNames, "main_gpu", "INTEGER")

runMigrations(d) ==
  LET columnNames == ColumnNames(d.columns)
      d1 == MigrateColumn(d, columnNames, "n_prompt", "INTEGER")
      d2 == MigrateColumn(d1, columnNames, "n_gen", "INTEGER")
      d3 == MigrateColumn(d2, columnNames, "split_mode", "TEXT")
      d4 == MigrateColumn(d3, columnNames, "main_gpu", "INTEGER")
  IN MigrateColumn(d4, columnNames, "n_depth", "INTEGER")

\* initialize(): the CREATE statements run in one exec, which stops at the
\* first statement that fails; runMigrations follows when none has
initialize(d) ==
  LET d0 == CreateTableIfNotExists(d)
      d1 == CreateIndexIfNotExists(d0, "idx_build_commit", "build_commit")
      d2 == CreateIndexIfNotExists(d1, "idx_model_filename", "model_filename")
      d3 == CreateIndexIfNotExists(d2, "idx_test_time", "test_time")
      d4 == CreateIndexIfNotExists(d3, "idx_test_type", "test_type")
      d5 == CreateIndexIfNotExists(d4, "idx_gpu_info", "gpu_info")
  IN IF d5.error THEN d5 ELSE runMigrations(d5)

\* the schema of a running server: initialize() has run on an empty file
\* the variable schema: the table and its indexes as the file holds them,
\* whether the process is up, whether initialize() has thrown, and (history)
\* the number of times initialize() has completed on this file
SchemaOf(d, up, runs) ==
  [exists |-> d.exists, columns |-> d.columns, indexes |-> d.indexes,
   up |-> up, error |-> d.error, runs |-> runs]

\* the schema of a running server: initialize() has run on an empty file
FreshSchema == SchemaOf(initialize(NoDatabase), TRUE, 1)

Max(a, b) == IF a >= b THEN a ELSE b

RECURSIVE MaxRowId(_)
MaxRowId(rs) ==
  IF rs = <<>> THEN 0 ELSE Max(rs[1]["id"].n, MaxRowId(Tail(rs)))

\* mutant: id INTEGER PRIMARY KEY, without AUTOINCREMENT
NextIdNoSequence(rs, sq) == MaxRowId(rs) + 1

\* id INTEGER PRIMARY KEY AUTOINCREMENT: one more than the largest id the
\* table has ever held (sq is sqlite_sequence's counter)
NextId(rs, sq) == Max(sq, MaxRowId(rs)) + 1

\* the row one INSERT_BENCHMARK adds
StoredRow(item, id, k) ==
  [c \in Columns |->
    IF c = "id" THEN Num(id)
    ELSE IF c = "created_at" THEN Str(CurrentTimestamp(k))
    ELSE ApplyAffinity(c, item[c])]

-----------------------------------------------------------------------------
(* db/queries.js: insert and delete *)

NoBody == [kind |-> "none", items |-> <<>>, text |-> <<>>]

NoTx ==
  [pc |-> "idle", inTx |-> FALSE, body |-> NoBody, items |-> <<>>, i |-> 0,
   snapRows |-> <<>>, snapSeq |-> 0]

\* mutant: the statements run outside any transaction
BeginNoTransaction(body, items, rs, sq) ==
  [pc |-> "insertMany", inTx |-> FALSE, body |-> body, items |-> items, i |-> 1,
   snapRows |-> rs, snapSeq |-> sq]

\* db.transaction(fn)(benchmarks): BEGIN, then fn runs statement by statement;
\* snapRows and snapSeq are the database as it was at BEGIN
BeginTransaction(body, items, rs, sq) ==
  [pc |-> "insertMany", inTx |-> TRUE, body |-> body, items |-> items, i |-> 1,
   snapRows |-> rs, snapSeq |-> sq]

\* mutant: return the changes of the last statement
InsertedCountLastRun(items) == IF Len(items) = 0 THEN 0 ELSE 1

\* return items.length
InsertedCount(items) == Len(items)

\* what a reader on another connection sees (WAL: the last committed state)
Visible == IF tx.inTx THEN tx.snapRows ELSE rows

RECURSIVE KeepRows(_, _)
KeepRows(rs, keep) ==
  IF rs = <<>> THEN <<>>
  ELSE IF rs[1]["id"].n \in keep THEN <<rs[1]>> \o KeepRows(Tail(rs), keep)
  ELSE KeepRows(Tail(rs), keep)

RowIds(rs) == {rs[i]["id"].n : i \in 1..Len(rs)}

\* the ids bound to @id0, @id1, ... (all numbers: the route parsed them)
BoundIds(ids) == {ids[i].n : i \in 1..Len(ids)}

\* mutant: UPDATE benchmarks SET samples = 'x' WHERE id IN (...)
deleteBenchmarksClearsSamples(rs, ids) ==
  [rows |-> [i \in 1..Len(rs) |->
               IF rs[i]["id"].n \in BoundIds(ids)
               THEN [rs[i] EXCEPT !["samples"] = Str(<<"x">>)] ELSE rs[i]],
   changes |-> Cardinality(RowIds(rs) \cap BoundIds(ids))]

\* mutant: return ids.length
deleteBenchmarksCountsIds(rs, ids) ==
  [rows |-> KeepRows(rs, RowIds(rs) \ BoundIds(ids)), changes |-> Len(ids)]

\* DELETE FROM benchmarks WHERE id IN (...): the rows left and result.changes
deleteBenchmarks(rs, ids) ==
  IF Len(ids) = 0 THEN [rows |-> rs, changes |-> 0]
  ELSE LET left == KeepRows(rs, RowIds(rs) \ BoundIds(ids))
       IN [rows |-> left, changes |-> Len(rs) - Len(left)]

-----------------------------------------------------------------------------
(* routes/api.js: POST /api/benchmarks *)

\* Request bodies.  A JSON body is decoded by express.json(): kind "object"
\* holds one object in items[1], kind "array" the elements of an array.  An
\* application/x-ndjson body arrives as text (kind "text"); such a request
\* without a body leaves req.body as express set it (kind "ndjson").  In a
\* text, one upper-case letter stands for the whole JSON text of the object
\* it names.
JsonBody(item) == [kind |-> "object", items |-> <<item>>, text |-> <<>>]
ArrayBody(items) == [kind |-> "array", items |-> items, text |-> <<>>]
TextBody(cs) == [kind |-> "text", items |-> <<>>, text |-> cs]
NdjsonBody(item) == [kind |-> "ndjson", items |-> <<item>>, text |-> <<>>]

RECURSIVE Split(_, _)
\* String.prototype.split(sep) for a one-character separator
Split(cs, sep) ==
  IF \A i \in 1..Len(cs) : cs[i] # sep THEN <<cs>>
  ELSE LET j == CHOOSE i \in 1..Len(cs) :
                  cs[i] = sep /\ \A h \in 1..(i - 1) : cs[h] # sep
       IN <<SubSeq(cs, 1, j - 1)>> \o Split(SubSeq(cs, j + 1, Len(cs)), sep)

RECURSIVE NonBlank(_)
\* .filter(line => line.trim())
NonBlank(ls) ==
  IF ls = <<>> THEN <<>>
  ELSE IF Trim(ls[1]) # <<>> THEN <<ls[1]>> \o NonBlank(Tail(ls))
  ELSE NonBlank(Tail(ls))

\* the llama-bench objects of the model
ObjectA ==
  JsonObject([NoKeys EXCEPT !["n_prompt"] = Num(5), !["n_gen"] = Num(0),
                            !["avg_ts"] = Num(12),
                            !["model_filename"] = Str(<<"a">>),
                            !["build_commit"] = Str(<<"c">>)])
ObjectB ==
  JsonObject([NoKeys EXCEPT !["n_prompt"] = Num(0), !["n_gen"] = Num(5),
                            !["avg_ts"] = Num(4),
                            !["gpu_info"] = Str(<<"y">>),
                            !["model_filename"] = Str(<<"a">>),
                            !["build_commit"] = Str(<<"c">>)])
\* an object one of whose values better-sqlite3 cannot bind
ObjectU == JsonObject([NoKeys EXCEPT !["n_batch"] = Bool(TRUE)])

\* the object {}
ObjectE == JsonObject(NoKeys)

\* a run that measured 0 tokens per second on average
ObjectZ ==
  JsonObject([NoKeys EXCEPT !["n_prompt"] = Num(0), !["n_gen"] = Num(5),
                            !["avg_ts"] = Num(0), !["t_s"] = Num(7),
                            !["gpu_info"] = Str(<<"y", ",", " ", " ", "x">>),
                            !["model_filename"] = Str(<<"a">>),
                            !["build_commit"] = Str(<<"b">>)])

\* a run whose n_gen is written as the text "0"
ObjectS ==
  JsonObject([NoKeys EXCEPT !["n_prompt"] = Num(5),
                            !["n_gen"] = Str(<<"0">>),
                            !["model_filename"] = Str(<<"a">>)])

ObjectNames == {"A", "B", "U", "E", "Z", "S"}

ObjectNamed(c) ==
  CASE c = "A" -> ObjectA [] c = "B" -> ObjectB [] c = "U" -> ObjectU
    [] c = "E" -> ObjectE [] c = "Z" -> ObjectZ [] c = "S" -> ObjectS

\* JSON.stringify(req.body): undefined for undefined, else the object's text
StringifyBody(item) ==
  IF item.v.t = "undef" THEN Undefined
  ELSE Str(<<CHOOSE c \in ObjectNames : ObjectNamed(c) = item>>)

NullText == <<"n", "u", "l", "l">>

\* JSON.parse of one line: leading and trailing white space is allowed
JsonValid(cs) ==
  LET u == Trim(cs) IN
    \/ Len(u) = 1 /\ u[1] \in ObjectNames
    \/ /\ IsIntegerText(u)
       /\ LET ds == IF u[1] = "-" THEN Tail(u) ELSE u
          IN Len(ds) = 1 \/ ds[1] # "0"
    \/ u = NullText

JsonParse(cs) ==
  LET u == Trim(cs) IN
    IF Len(u) = 1 /\ u[1] \in ObjectNames THEN ObjectNamed(u[1])
    ELSE IF u = NullText THEN JsonPrimitive(Null)
    ELSE JsonPrimitive(Num(IntegerTextValue(u)))

\* mutant: a line that is not valid JSON is skipped
parseJsonlSkipsInvalid(cs) ==
  LET ls == NonBlank(Split(cs, "\n"))
      valid == SelectSeq(ls, JsonValid)
  IN [ok |-> TRUE, data |-> [i \in 1..Len(valid) |-> JsonParse(valid[i])]]

\* parseJsonl(text): ok is FALSE when JSON.parse throws on some line
parseJsonl(cs) ==
  LET ls == NonBlank(Split(cs, "\n")) IN
    IF \E i \in 1..Len(ls) : ~JsonValid(ls[i])
    THEN [ok |-> FALSE, data |-> <<>>]
    ELSE [ok |-> TRUE, data |-> [i \in 1..Len(ls) |-> JsonParse(ls[i])]]

\* lines 27-33 of the route: the values to transform
RequestData(body) ==
  IF body.kind = "text" THEN parseJsonl(body.text)
  ELSE IF body.kind = "ndjson"
  THEN LET text == StringifyBody(body.items[1])
       IN IF text.t = "undef" THEN [ok |-> FALSE, data |-> <<>>]
          ELSE parseJsonl(text.s)
  ELSE [ok |-> TRUE, data |-> body.items]

\* data.map(transformBenchmark): ok is FALSE when a property read throws
TransformAll(data, k) ==
  IF \E i \in 1..Len(data) : ~CanReadProperty(data[i])
  THEN [ok |-> FALSE, items |-> <<>>]
  ELSE [ok |-> TRUE, items |-> [i \in 1..Len(data) |-> transformBenchmark(data[i], k)]]

Response(op, status, n) ==
  [op |-> op, status |-> status, n |-> n, result |-> <<>>,
   query |-> [text |-> <<>>, params |-> {}]]

NoResponse == Response("none", 0, 0)

\* the bodies submitted in the model
BodyItems ==
  {ObjectA, ObjectB, ObjectU, JsonPrimitive(Num(5)),
   JsonPrimitive(Str(<<"a">>)), JsonPrimitive(Null)}

BodyLines == {<<"A">>, <<"B", " ">>, <<" ">>, <<"x">>, <<"5">>}

\* the second element of an array of two, the second line of a text of two
SecondItems == {ObjectB, ObjectU, JsonPrimitive(Num(5))}

SecondLines == {<<"A">>, <<" ">>, <<"x">>}

Bodies ==
  {JsonBody(ObjectA), JsonBody(ObjectB), JsonBody(ObjectU), JsonBody(ObjectE),
   JsonBody(ObjectS),
   NdjsonBody(ObjectE), NdjsonBody(JsonPrimitive(Undefined))}
  \cup {ArrayBody(<<>>)}
  \cup {ArrayBody(<<a>>) : a \in BodyItems}
  \cup {ArrayBody(<<a, b>>) : a \in BodyItems, b \in SecondItems}
  \cup {TextBody(l) : l \in BodyLines}
  \cup {TextBody(l \o <<"\n">> \o m) : l \in BodyLines, m \in SecondLines}

\* router.post('/benchmarks') up to the call of insertMany
PostBenchmarks(body) ==
  /\ tx.pc = "idle"
  /\ LET parsed == RequestData(body)
         mapped == TransformAll(parsed.data, now)
     IN IF ~parsed.ok \/ ~mapped.ok
        THEN /\ resp' = Response("post", 400, 0)
             /\ UNCHANGED <<rows, seq, tx, schema>>
        ELSE /\ seq + Len(mapped.items) <= MaxId
             /\ tx' = BeginTransaction(body, mapped.items, rows, seq)
             /\ resp' = Response("post", 0, 0)
             /\ UNCHANGED <<rows, seq, schema>>
  /\ UNCHANGED <<now, assigned, raw, out, schema>>

\* one stmt.run(item) of insertMany; a TypeError rolls the transaction back
\* and reaches the route's catch
StmtRun ==
  /\ tx.pc = "insertMany"
  /\ tx.i <= Len(tx.items)
  /\ LET item == tx.items[tx.i]
         id == NextId(rows, seq)
     IN IF AllBindable(item)
        THEN /\ rows' = Append(rows, StoredRow(item, id, now))
             /\ seq' = id
             /\ tx' = [tx EXCEPT !.i = @ + 1]
             /\ UNCHANGED resp
        ELSE /\ rows' = IF tx.inTx THEN tx.snapRows ELSE rows
             /\ seq' = IF tx.inTx THEN tx.snapSeq ELSE seq
             /\ tx' = NoTx
             /\ resp' = Response("post", 400, 0)
  /\ assigned' = assigned \cup RowIds(Visible')
  /\ UNCHANGED <<now, raw, out, schema>>

\* return items.length; COMMIT; res.json({ success: true, inserted: count })
Commit ==
  /\ tx.pc = "insertMany"
  /\ tx.i > Len(tx.items)
  /\ tx' = NoTx
  /\ resp' = Response("post", 200, InsertedCount(tx.items))
  /\ assigned' = assigned \cup RowIds(rows)
  /\ UNCHANGED <<rows, seq, now, raw, out, schema>>

-----------------------------------------------------------------------------
(* routes/api.js: DELETE /api/benchmarks *)

\* ToString of a value, as parseInt applies it to its argument
ToStringChars(v) ==
  CASE v.t = "num" -> IntToChars(v.n)
    [] v.t = "str" -> v.s
    [] v.t = "bool" -> IF v.n = 1 THEN <<"t", "r", "u", "e">>
                       ELSE <<"f", "a", "l", "s", "e">>
    [] v.t = "null" -> NullText
    [] v.t = "undef" -> <<"u", "n", "d", "e", "f", "i", "n", "e", "d">>
    [] v.t = "nan" -> <<"N", "a", "N">>
    [] v.t = "arr" -> JoinNumbers(v.e)
    [] v.t = "obj" -> <<"[", "o", "b", "j", "e", "c", "t", " ",
                        "O", "b", "j", "e", "c", "t", "]">>

RECURSIVE DigitPrefix(_)
DigitPrefix(cs) ==
  IF cs # <<>> /\ IsDigit(cs[1]) THEN <<cs[1]>> \o DigitPrefix(Tail(cs))
  ELSE <<>>

\* parseInt(v, 10): white space, a sign, then the longest run of digits
ParseInt(v) ==
  LET u == TrimLeft(ToStringChars(v))
      neg == u # <<>> /\ u[1] = "-"
      body == IF u # <<>> /\ u[1] \in {"-", "+"} THEN Tail(u) ELSE u
      ds == DigitPrefix(body)
  IN IF ds = <<>> THEN NaN
     ELSE Num(IF neg THEN 0 - DigitsToNat(ds) ELSE DigitsToNat(ds))

RECURSIVE ParsedIds(_)
\* ids.map(id => parseInt(id, 10)).filter(id => !isNaN(id))
ParsedIds(ids) ==
  IF ids = <<>> THEN <<>>
  ELSE LET k == ParseInt(ids[1])
       IN IF k.t = "nan" THEN ParsedIds(Tail(ids))
          ELSE <<k>> \o ParsedIds(Tail(ids))

\* req.body of a DELETE: ids is absent, a value that is no array, or an array
NoIds == [kind |-> "absent", v |-> Undefined, list |-> <<>>]
ScalarIds(v) == [kind |-> "value", v |-> v, list |-> <<>>]
ArrayIds(list) == [kind |-> "array", v |-> Undefined, list |-> list]

\* !ids || !Array.isArray(ids) || ids.length === 0
IdsRejected(ids) == ids.kind # "array" \/ Len(ids.list) = 0

\* mutant: the check of parsedIds.length is missing
DeleteRouteNoParsedCheck(rs, ids) ==
  IF IdsRejected(ids) THEN [status |-> 400, n |-> 0, rows |-> rs]
  ELSE LET d == deleteBenchmarks(rs, ParsedIds(ids.list))
       IN [status |-> 200, n |-> d.changes, rows |-> d.rows]

\* the route's answer: the status, the deleted count and the rows left
DeleteRoute(rs, ids) ==
  IF IdsRejected(ids) THEN [status |-> 400, n |-> 0, rows |-> rs]
  ELSE LET parsedIds == ParsedIds(ids.list) IN
    IF Len(parsedIds) = 0 THEN [status |-> 400, n |-> 0, rows |-> rs]
    ELSE LET d == deleteBenchmarks(rs, parsedIds)
         IN [status |-> 200, n |-> d.changes, rows |-> d.rows]

IdValues ==
  {Num(i) : i \in 1..MaxId} \cup {Str(<<"2">>), Str(<<"x">>)}

DeleteBodies ==
  {NoIds, ScalarIds(Null), ScalarIds(Num(1)), ScalarIds(Str(<<"1">>)),
   ArrayIds(<<>>)}
  \cup {ArrayIds(<<a>>) : a \in IdValues}
  \cup {ArrayIds(<<a, b>>) : a \in IdValues, b \in {Num(1), Str(<<"x">>)}}

\* router.delete('/benchmarks')
DeleteBenchmarks(ids) ==
  /\ tx.pc = "idle"
  /\ LET r == DeleteRoute(rows, ids)
     IN /\ rows' = r.rows
        /\ resp' = Response("delete", r.status, r.n)
  /\ UNCHANGED <<seq, now, tx, assigned, raw, out, schema>>

-----------------------------------------------------------------------------
(* SQLite as db/queries.js uses it: comparison, LIKE, aggregates, ORDER BY *)

\* the characters in code order: tab, line feed, then the printable ASCII
\* characters but the grave accent
Ascii ==
  <<"\t", "\n", " ", "!", "\"", "#", "$", "%", "&", "'", "(", ")", "*",
    "+", ",", "-", ".", "/", "0", "1", "2", "3", "4", "5", "6", "7", "8",
    "9", ":", ";", "<", "=", ">", "?", "@", "A", "B", "C", "D", "E", "F",
    "G", "H", "I", "J", "K", "L", "M", "N", "O", "P", "Q", "R", "S", "T",
    "U", "V", "W", "X", "Y", "Z", "[", "\\", "]", "^", "_", "a", "b",
    "c", "d", "e", "f", "g", "h", "i", "j", "k", "l", "m", "n", "o", "p",
    "q", "r", "s", "t", "u", "v", "w", "x", "y", "z", "{", "|", "}", "~">>

CharCode(c) == CHOOSE i \in 1..Len(Ascii) : Ascii[i] = c

\* LIKE folds the case of the ASCII letters
ToLower(c) ==
  LET i == CharCode(c) IN IF i \in 36..61 THEN Ascii[i + 31] ELSE c

RECURSIVE TextLess(_, _)
\* the BINARY collation, and JavaScript's default sort order of strings
TextLess(a, b) ==
  IF b = <<>> THEN FALSE
  ELSE IF a = <<>> THEN TRUE
  ELSE IF a[1] = b[1] THEN TextLess(Tail(a), Tail(b))
  ELSE CharCode(a[1]) < CharCode(b[1])

\* storage classes in sort order: NULL, then numbers, then text
StorageClass(v) ==
  CASE v.t = "null" -> 0
    [] v.t = "num" -> 1
    [] v.t = "str" -> 2
    [] OTHER -> 3

\* a sorts before b
SqlLess(a, b) ==
  \/ StorageClass(a) < StorageClass(b)
  \/ /\ StorageClass(a) = StorageClass(b)
     /\ \/ a.t = "num" /\ a.n < b.n
        \/ a.t = "str" /\ TextLess(a.s, b.s)

\* column = @param and column IN (@param, ...): the column's affinity is
\* applied to the bound value; a comparison with NULL is not true
SqlEquals(c, v, param) ==
  LET p == ApplyAffinity(c, param) IN v.t # "null" /\ p.t # "null" /\ v = p

\* column >= @param
SqlAtLeast(c, v, param) ==
  LET p == ApplyAffinity(c, param)
  IN v.t # "null" /\ p.t # "null" /\ ~SqlLess(v, p)

\* column <= @param
SqlAtMost(c, v, param) ==
  LET p == ApplyAffinity(c, param)
  IN v.t # "null" /\ p.t # "null" /\ ~SqlLess(p, v)

\* mutant: only the first value of the list is compared
SqlInListFirstOnly(c, v, params) ==
  Len(params) > 0 /\ SqlEquals(c, v, params[1])

SqlInList(c, v, params) ==
  \E i \in 1..Len(params) : SqlEquals(c, v, params[i])

RECURSIVE LikeMatch(_, _)
\* text LIKE pattern: % is any run of characters, _ any one character
LikeMatch(p, cs) ==
  IF p = <<>> THEN cs = <<>>
  ELSE IF p[1] = "%"
  THEN \E k \in 0..Len(cs) : LikeMatch(Tail(p), SubSeq(cs, k + 1, Len(cs)))
  ELSE IF cs = <<>> THEN FALSE
  ELSE /\ p[1] = "_" \/ ToLower(p[1]) = ToLower(cs[1])
       /\ LikeMatch(Tail(p), Tail(cs))

\* column LIKE '%text%'
SqlContains(v, text) ==
  /\ v.t \in {"num", "str"}
  /\ LikeMatch(<<"%">> \o text \o <<"%">>,
               IF v.t = "num" THEN IntToChars(v.n) ELSE v.s)

\* column LIKE '%a%' OR column LIKE '%b%' ...
SqlContainsAny(v, texts) ==
  \E i \in 1..Len(texts) : SqlContains(v, texts[i].s)

\* the rows of the table as a set, and those a WHERE clause keeps
RowSet(rs) == {rs[i] : i \in 1..Len(rs)}

\* the values of the grouping columns of a row
KeyOf(r, cols) == [c \in cols |-> r[c]]

GroupKeys(S, cols) == {KeyOf(r, cols) : r \in S}

Group(S, cols, k) == {r \in S : KeyOf(r, cols) = k}

\* the number an aggregate makes of a value that is not NULL
NumericValue(v) ==
  IF v.t = "num" THEN v.n
  ELSE LET k == ParseInt(v) IN IF k.t = "num" THEN k.n ELSE 0

RECURSIVE SumOf(_, _)
SumOf(G, c) ==
  IF G = {} THEN 0
  ELSE LET r == CHOOSE x \in G : TRUE
       IN NumericValue(r[c]) + SumOf(G \ {r}, c)

RECURSIVE GCD(_, _)
GCD(a, b) == IF b = 0 THEN a ELSE GCD(b, a % b)

\* the number p/q: an integer when q divides p, else the fraction in lowest
\* terms (n over e[1])
Real(p, q) ==
  IF p % q = 0 THEN Num(p \div q)
  ELSE LET g == GCD(IF p < 0 THEN 0 - p ELSE p, q)
       IN [t |-> "real", n |-> p \div g, s |-> <<>>, e |-> <<q \div g>>]

NonNull(G, c) == {r \in G : r[c].t # "null"}

\* AVG(column) over the rows G: NULLs are left out, no value gives NULL
Avg(G, c) ==
  LET H == NonNull(G, c)
  IN IF H = {} THEN Null ELSE Real(SumOf(H, c), Cardinality(H))

\* MIN(column) and MAX(column)
MinOf(G, c) ==
  LET V == {r[c] : r \in NonNull(G, c)}
  IN IF V = {} THEN Null ELSE CHOOSE v \in V : \A w \in V : ~SqlLess(w, v)

\* mutant: the least value is taken
LeastOf(G, c) ==
  LET V == {r[c] : r \in NonNull(G, c)}
  IN IF V = {} THEN Null ELSE CHOOSE v \in V : \A w \in V : ~SqlLess(w, v)

MaxOf(G, c) ==
  LET V == {r[c] : r \in NonNull(G, c)}
  IN IF V = {} THEN Null ELSE CHOOSE v \in V : \A w \in V : ~SqlLess(v, w)

\* COUNT(DISTINCT column)
CountDistinct(G, c) == Cardinality({r[c] : r \in NonNull(G, c)})

\* one ORDER BY term
Asc(c) == [col |-> c, desc |-> FALSE]
Desc(c) == [col |-> c, desc |-> TRUE]

RECURSIVE Before(_, _, _)
\* row a must come before row b under the ORDER BY terms o
Before(a, b, o) ==
  IF o = <<>> THEN FALSE
  ELSE LET x == IF o[1].desc THEN b[o[1].col] ELSE a[o[1].col]
           y == IF o[1].desc THEN a[o[1].col] ELSE b[o[1].col]
       IN SqlLess(x, y) \/ (~SqlLess(y, x) /\ Before(a, b, Tail(o)))

\* the orders in which SQLite may return the rows S under ORDER BY o: rows
\* that compare equal come in any order
Orderings(S, o) ==
  {s \in [1..Cardinality(S) -> S] :
     /\ \A i, j \in 1..Cardinality(S) : i # j => s[i] # s[j]
     /\ \A i, j \in 1..Cardinality(S) : i < j => ~Before(s[j], s[i], o)}

\* LIMIT limit OFFSET offset: a negative limit is no limit
Limit(s, limit, offset) ==
  LET first == IF offset < 0 THEN 1 ELSE offset + 1
      last == IF limit < 0 \/ first + limit - 1 > Len(s)
              THEN Len(s) ELSE first + limit - 1
  IN SubSeq(s, first, last)

-----------------------------------------------------------------------------
(* config/dimensions.js *)

\* the keys of DIMENSIONS
VALID_DIMENSION_KEYS ==
  {"n_gpu_layers", "split_mode", "main_gpu", "n_batch", "n_ubatch", "n_ctx",
   "n_prompt", "n_gen", "n_depth", "flash_attn", "cache_type_k",
   "cache_type_v", "embeddings", "n_threads", "backend"}

\* mutant: any column of the table passes
isValidDimensionAnyColumn(key) == key \in Columns

isValidDimension(key) == key \in VALID_DIMENSION_KEYS

filterValidDimensions(keys) == SelectSeq(keys, isValidDimension)

-----------------------------------------------------------------------------
(* db/queries.js: the queries.  Each operator gives the set of the results *)
(* the query may return on the table rs: SQLite leaves open the order of   *)
(* rows that ORDER BY does not tell apart, and the row a bare column of an *)
(* aggregate query is read from.                                           *)

\* an option that is a list: given, or left out
Given(list) == [given |-> TRUE, list |-> list]
NotGiven == [given |-> FALSE, list |-> <<>>]

\* { option = deflt }: the default stands for an option that is undefined
ListOr(o, deflt) == IF o.given THEN o.list ELSE deflt
ValueOr(v, deflt) == IF v.t = "undef" THEN deflt ELSE v

\* a column name that is left out
NotNamed == ""
NameOr(name, deflt) == IF name = NotNamed THEN deflt ELSE name

\* getBenchmarks({ limit = 100, ... })
DefaultLimit == 100
\* getStats: LIMIT 10
RecentLimit == 10

SeqSet(s) == {s[i] : i \in 1..Len(s)}

getBenchmarks(rs, o) ==
  LET limit == ValueOr(o.limit, Num(DefaultLimit))
      offset == ValueOr(o.offset, Num(0))
      kept ==
        {r \in RowSet(rs) :
           /\ Truthy(o.model) => SqlContains(r["model_filename"], o.model.s)
           /\ Truthy(o.commit) =>
                SqlEquals("build_commit", r["build_commit"], o.commit)
           /\ Truthy(o.testType) =>
                SqlEquals("test_type", r["test_type"], o.testType)
           /\ Truthy(o.startDate) =>
                SqlAtLeast("test_time", r["test_time"], o.startDate)
           /\ Truthy(o.endDate) =>
                SqlAtMost("test_time", r["test_time"], o.endDate)}
  IN {Limit(s, limit.n, offset.n) : s \in Orderings(kept, <<Desc("created_at")>>)}

ModelColumns ==
  {"model_filename", "model_type", "model_size", "model_n_params"}

getModels(rs) ==
  Orderings({KeyOf(r, ModelColumns) : r \in RowSet(rs)},
            <<Asc("model_filename")>>)

\* build_number is a bare column: it is read from a row of the group that
\* holds MAX(test_time)
getBuilds(rs) ==
  LET S == RowSet(rs)
      K == GroupKeys(S, {"build_commit"})
      G(k) == Group(S, {"build_commit"}, k)
      latest(k) == MaxOf(G(k), "test_time")
      top(k) == {r \in G(k) : r["test_time"] = latest(k)}
      picks == {f \in [K -> S] :
                  \A k \in K : f[k] \in (IF top(k) = {} THEN G(k) ELSE top(k))}
      line(k, r) == [build_commit |-> k["build_commit"],
                     build_number |-> r["build_number"],
                     latest_test |-> latest(k)]
  IN UNION {Orderings({line(k, f[k]) : k \in K}, <<Desc("latest_test")>>) :
              f \in picks}

RECURSIVE SplitOn(_, _)
\* String.prototype.split(sep) for a separator of one or more characters
SplitOn(cs, sep) ==
  LET n == Len(sep)
      hits == {j \in 1..(Len(cs) - n + 1) : SubSeq(cs, j, j + n - 1) = sep}
  IN IF hits = {} THEN <<cs>>
     ELSE LET j == CHOOSE h \in hits : \A g \in hits : h <= g
          IN <<SubSeq(cs, 1, j - 1)>>
               \o SplitOn(SubSeq(cs, j + n, Len(cs)), sep)

\* Array.from(set).sort()
SortedTexts(T) ==
  CHOOSE s \in [1..Cardinality(T) -> T] :
    \A i, j \in 1..Cardinality(T) : i < j => TextLess(s[i], s[j])

\* getGpus without the split: the distinct gpu_info texts themselves
getGpusUnsplit(rs) ==
  LET infos == {r["gpu_info"] :
                  r \in {x \in RowSet(rs) : /\ x["gpu_info"].t # "null"
                                            /\ x["gpu_info"] # Str(<<>>)}}
      sorted == SortedTexts({v.s : v \in infos})
  IN {[i \in 1..Len(sorted) |-> [gpu_info |-> Str(sorted[i])]]}

getGpus(rs) ==
  LET infos == {r["gpu_info"] :
                  r \in {x \in RowSet(rs) : /\ x["gpu_info"].t # "null"
                                            /\ x["gpu_info"] # Str(<<>>)}}
      gpuSet == UNION {{Trim(g) : g \in SeqSet(SplitOn(v.s, <<",", " ">>))} :
                         v \in infos} \ {<<>>}
      sorted == SortedTexts(gpuSet)
  IN {[i \in 1..Len(sorted) |-> [gpu_info |-> Str(sorted[i])]]}

VALID_GROUP_BY_COLUMNS ==
  {"build_commit", "model_filename", "model_type", "gpu_info", "test_type",
   "backend"} \cup VALID_DIMENSION_KEYS

\* mutant: any column of the table is accepted
ValidGroupByAnyColumn(groupBy) ==
  IF groupBy \in Columns THEN groupBy ELSE "build_commit"

\* mutant: the fallback is another column
ValidGroupByFallsToModel(groupBy) ==
  IF groupBy \in VALID_GROUP_BY_COLUMNS THEN groupBy ELSE "model_filename"

\* if (!VALID_GROUP_BY_COLUMNS.includes(groupBy)) groupBy = 'build_commit'
ValidGroupBy(groupBy) ==
  IF groupBy \in VALID_GROUP_BY_COLUMNS THEN groupBy ELSE "build_commit"

TrendColumns == {"test_time", "avg_tps", "min_tps", "max_tps", "sample_count"}

\* test_time is a bare column beside MIN and MAX: it is read from a row of
\* the group that holds the least or the largest tokens_per_second
getTrends(rs, o) ==
  LET testType == ValueOr(o.testType, TG)
      groupBy == ValidGroupBy(NameOr(o.groupBy, "build_commit"))
      S == {r \in RowSet(rs) :
              /\ SqlEquals("test_type", r["test_type"], testType)
              /\ Truthy(o.model) => SqlContains(r["model_filename"], o.model.s)}
      K == GroupKeys(S, {groupBy})
      G(k) == Group(S, {groupBy}, k)
      ends(k) == {r \in NonNull(G(k), "tokens_per_second") :
                    r["tokens_per_second"] \in
                      {MinOf(G(k), "tokens_per_second"),
                       MaxOf(G(k), "tokens_per_second")}}
      picks == {f \in [K -> S] :
                  \A k \in K : f[k] \in (IF ends(k) = {} THEN G(k) ELSE ends(k))}
      line(k, r) ==
        [c \in {groupBy} \cup TrendColumns |->
           CASE c = groupBy -> k[groupBy]
             [] c = "test_time" -> r["test_time"]
             [] c = "avg_tps" -> Avg(G(k), "tokens_per_second")
             [] c = "min_tps" -> MinOf(G(k), "tokens_per_second")
             [] c = "max_tps" -> MaxOf(G(k), "tokens_per_second")
             [] c = "sample_count" -> Num(Cardinality(G(k)))]
  IN UNION {Orderings({line(k, f[k]) : k \in K}, <<Asc("test_time")>>) :
              f \in picks}

getStats(rs) ==
  LET S == RowSet(rs)
      tg == {r \in S : SqlEquals("test_type", r["test_type"], TG)}
      pp == {r \in S : SqlEquals("test_type", r["test_type"], PP)}
  IN {[total_benchmarks |-> Num(Cardinality(S)),
       unique_models |-> Num(CountDistinct(S, "model_filename")),
       unique_builds |-> Num(CountDistinct(S, "build_commit")),
       avg_tg_tps |-> Avg(tg, "tokens_per_second"),
       avg_pp_tps |-> Avg(pp, "tokens_per_second"),
       latest_test |-> MaxOf(S, "test_time"),
       recentBenchmarks |-> Limit(s, RecentLimit, 0)] :
        s \in Orderings(S, <<Desc("created_at")>>)}

\* test_type is a bare column: it is read from any row of the group
getComparisonData(rs, o) ==
  LET models == ListOr(o.models, <<>>)
      commits == ListOr(o.commits, <<>>)
      testType == ValueOr(o.testType, TG)
      cols == {"model_filename", "build_commit"}
      S == {r \in RowSet(rs) :
              /\ SqlEquals("test_type", r["test_type"], testType)
              /\ Len(models) > 0 =>
                   SqlInList("model_filename", r["model_filename"], models)
              /\ Len(commits) > 0 =>
                   SqlInList("build_commit", r["build_commit"], commits)}
      K == GroupKeys(S, cols)
      G(k) == Group(S, cols, k)
      picks == {f \in [K -> S] : \A k \in K : f[k] \in G(k)}
      line(k, r) == [model_filename |-> k["model_filename"],
                     build_commit |-> k["build_commit"],
                     test_type |-> r["test_type"],
                     avg_tps |-> Avg(G(k), "tokens_per_second"),
                     avg_stddev |-> Avg(G(k), "stddev"),
                     runs |-> Num(Cardinality(G(k)))]
  IN UNION {Orderings({line(k, f[k]) : k \in K},
                      <<Asc("model_filename"), Asc("build_commit")>>) :
              f \in picks}

\* one entry of a filters object: a key and its value, an array (isArray,
\* with its elements in values) or another value (values is then empty)
FilterEntry(dimension, isArray, values) ==
  [dimension |-> dimension, isArray |-> isArray, values |-> values]

\* mutant: a key passes when it names a column of the table
ActiveFiltersAnyColumn(filters) ==
  {i \in 1..Len(filters) : /\ filters[i].dimension \in Columns
                           /\ filters[i].isArray
                           /\ Len(filters[i].values) > 0}

\* the entries of a filters object that become conditions
ActiveFilters(filters) ==
  {i \in 1..Len(filters) : /\ filters[i].dimension \in VALID_DIMENSION_KEYS
                           /\ filters[i].isArray
                           /\ Len(filters[i].values) > 0}

MatchesFilters(r, filters) ==
  \A i \in ActiveFilters(filters) :
    SqlInList(filters[i].dimension, r[filters[i].dimension], filters[i].values)

getBenchmarksFiltered(rs, o) ==
  LET models == ListOr(o.models, <<>>)
      gpus == ListOr(o.gpus, <<>>)
      testTypes == ListOr(o.testTypes, <<PP, TG>>)
      mainGpus == ListOr(o.mainGpus, <<>>)
      splitModes == ListOr(o.splitModes, <<>>)
      dimensionFilters == ListOr(o.dimensionFilters, <<>>)
      limit == ValueOr(o.limit, Num(DefaultLimit))
      S == {r \in RowSet(rs) :
              /\ Len(testTypes) > 0 =>
                   SqlInList("test_type", r["test_type"], testTypes)
              /\ Len(models) > 0 =>
                   SqlInList("model_filename", r["model_filename"], models)
              /\ Len(gpus) > 0 => SqlContainsAny(r["gpu_info"], gpus)
              /\ Len(mainGpus) > 0 =>
                   SqlInList("main_gpu", r["main_gpu"], mainGpus)
              /\ Len(splitModes) > 0 =>
                   SqlInList("split_mode", r["split_mode"], splitModes)
              /\ MatchesFilters(r, dimensionFilters)}
  IN {Limit(s, limit.n, 0) : s \in Orderings(S, <<Desc("test_time")>>)}

RECURSIVE Unique(_)
\* [...new Set(list)]: each element once, at its first position
Unique(list) ==
  IF list = <<>> THEN <<>>
  ELSE LET front == Unique(SubSeq(list, 1, Len(list) - 1))
       IN IF list[Len(list)] \in SeqSet(front) THEN front
          ELSE Append(front, list[Len(list)])

\* mutant: the columns are not passed through a Set
AllGroupByRepeated(groupByDimensions) ==
  <<"build_commit", "model_filename", "test_type">>
    \o filterValidDimensions(groupByDimensions)

\* allGroupBy of getDimensionalTrends
AllGroupBy(groupByDimensions) ==
  Unique(<<"build_commit", "model_filename", "test_type">>
           \o filterValidDimensions(groupByDimensions))

DimensionalColumns ==
  {"test_time", "avg_tps", "min_tps", "max_tps", "avg_stddev", "sample_count"}

\* mutant: the WHERE clause leaves the dimension filters out
getDimensionalTrendsUnfiltered(rs, o) ==
  LET groupByDimensions == ListOr(o.groupByDimensions, <<>>)
      testTypes == ListOr(o.testTypes, <<PP, TG>>)
      models == ListOr(o.models, <<>>)
      allGroupBy == SeqSet(AllGroupBy(groupByDimensions))
      S == {r \in RowSet(rs) :
              /\ Len(testTypes) > 0 =>
                   SqlInList("test_type", r["test_type"], testTypes)
              /\ Len(models) > 0 =>
                   SqlInList("model_filename", r["model_filename"], models)}
      K == GroupKeys(S, allGroupBy)
      G(k) == Group(S, allGroupBy, k)
      line(k) ==
        [c \in allGroupBy \cup DimensionalColumns |->
           IF c \in allGroupBy THEN k[c]
           ELSE CASE c = "test_time" -> MaxOf(G(k), "test_time")
                  [] c = "avg_tps" -> Avg(G(k), "tokens_per_second")
                  [] c = "min_tps" -> MinOf(G(k), "tokens_per_second")
                  [] c = "max_tps" -> MaxOf(G(k), "tokens_per_second")
                  [] c = "avg_stddev" -> Avg(G(k), "stddev")
                  [] c = "sample_count" -> Num(Cardinality(G(k)))]
  IN Orderings({line(k) : k \in K}, <<Asc("test_time")>>)

getDimensionalTrends(rs, o) ==
  LET groupByDimensions == ListOr(o.groupByDimensions, <<>>)
      filters == ListOr(o.filters, <<>>)
      testTypes == ListOr(o.testTypes, <<PP, TG>>)
      models == ListOr(o.models, <<>>)
      allGroupBy == SeqSet(AllGroupBy(groupByDimensions))
      S == {r \in RowSet(rs) :
              /\ Len(testTypes) > 0 =>
                   SqlInList("test_type", r["test_type"], testTypes)
              /\ Len(models) > 0 =>
                   SqlInList("model_filename", r["model_filename"], models)
              /\ MatchesFilters(r, filters)}
      K == GroupKeys(S, allGroupBy)
      G(k) == Group(S, allGroupBy, k)
      line(k) ==
        [c \in allGroupBy \cup DimensionalColumns |->
           IF c \in allGroupBy THEN k[c]
           ELSE CASE c = "test_time" -> MaxOf(G(k), "test_time")
                  [] c = "avg_tps" -> Avg(G(k), "tokens_per_second")
                  [] c = "min_tps" -> MinOf(G(k), "tokens_per_second")
                  [] c = "max_tps" -> MaxOf(G(k), "tokens_per_second")
                  [] c = "avg_stddev" -> Avg(G(k), "stddev")
                  [] c = "sample_count" -> Num(Cardinality(G(k)))]
  IN Orderings({line(k) : k \in K}, <<Asc("test_time")>>)

\* getDimensionValues with COUNT(DISTINCT column) for COUNT(*)
getDimensionValuesCountDistinct(rs, dimension) ==
  IF dimension \notin VALID_DIMENSION_KEYS THEN {<<>>}
  ELSE LET S == NonNull(RowSet(rs), dimension)
           K == GroupKeys(S, {dimension})
           line(k) == [value |-> k[dimension], count |-> Num(1)]
       IN Orderings({line(k) : k \in K}, <<Asc("value")>>)

getDimensionValues(rs, dimension) ==
  IF dimension \notin VALID_DIMENSION_KEYS THEN {<<>>}
  ELSE LET S == NonNull(RowSet(rs), dimension)
           K == GroupKeys(S, {dimension})
           line(k) == [value |-> k[dimension],
                       count |-> Num(Cardinality(Group(S, {dimension}, k)))]
       IN Orderings({line(k) : k \in K}, <<Asc("value")>>)

RECURSIVE DimensionValuesOf(_, _)
\* for (const dimension of keys) result[dimension] = getDimensionValues(dimension)
DimensionValuesOf(rs, keys) ==
  IF keys = {} THEN {<<>>}
  ELSE LET dimension == CHOOSE k \in keys : TRUE
       IN {[k \in keys |-> IF k = dimension THEN values ELSE result[k]] :
             values \in getDimensionValues(rs, dimension),
             result \in DimensionValuesOf(rs, keys \ {dimension})}

getAllDimensionValues(rs) == DimensionValuesOf(rs, VALID_DIMENSION_KEYS)

-----------------------------------------------------------------------------
(* db/queries.js: the text of the dynamic queries and their bound values.  *)
(* A text is a sequence of pieces: lit is TRUE for a piece the source      *)
(* spells out, FALSE for a piece a template literal interpolates.          *)

Lit(s) == [lit |-> TRUE, s |-> s]
Interp(s) == [lit |-> FALSE, s |-> s]

NoQuery == [text |-> <<>>, params |-> {}]

RECURSIVE JoinPieces(_, _)
\* parts.join(sep)
JoinPieces(parts, sep) ==
  IF parts = <<>> THEN <<>>
  ELSE IF Len(parts) = 1 THEN parts[1]
  ELSE parts[1] \o <<sep>> \o JoinPieces(Tail(parts), sep)

\* list.map((_, i) => `@name${i}`).join(', ')
Placeholders(name, n) ==
  JoinPieces([i \in 1..n |-> <<Interp("@" \o name \o ToString(i - 1))>>],
             Lit(", "))

\* list.forEach((v, i) => params[`name${i}`] = v)
BindList(name, list) ==
  {<<name \o ToString(i - 1), list[i]>> : i \in 1..Len(list)}

\* `column IN (${placeholders})`
InCondition(column, name, n) ==
  <<column, Lit(" IN (")>> \o Placeholders(name, n) \o <<Lit(")")>>

\* conditions.length > 0 ? `WHERE ${conditions.join(' AND ')}` : ''
WhereClause(conditions) ==
  IF conditions = <<>> THEN <<>>
  ELSE <<Lit("WHERE ")>> \o JoinPieces(conditions, Lit(" AND "))

\* the entries of a filters object that become conditions, in their order;
\* the k-th of them is numbered filterIdx = k - 1
ActiveSeq(filters) ==
  SelectSeq([i \in 1..Len(filters) |-> i],
            LAMBDA i : i \in ActiveFilters(filters))

FilterConditions(filters, name) ==
  [k \in 1..Len(ActiveSeq(filters)) |->
     LET f == filters[ActiveSeq(filters)[k]]
     IN InCondition(Interp(f.dimension), name \o ToString(k - 1) \o "_",
                    Len(f.values))]

FilterParams(filters, name) ==
  UNION {BindList(name \o ToString(k - 1) \o "_",
                  filters[ActiveSeq(filters)[k]].values) :
           k \in 1..Len(ActiveSeq(filters))}

\* `%${text}%`
LikePattern(v) == Str(<<"%">> \o ToStringChars(v) \o <<"%">>)

getTrendsQuery(o) ==
  LET groupBy == ValidGroupBy(NameOr(o.groupBy, "build_commit"))
  IN [text |->
        <<Lit("SELECT "), Interp(groupBy),
          Lit(", test_time, AVG(tokens_per_second) as avg_tps, MIN(tokens_per_second) as min_tps, MAX(tokens_per_second) as max_tps, COUNT(*) as sample_count FROM benchmarks WHERE test_type = @testType")>>
        \o (IF Truthy(o.model)
            THEN <<Lit(" AND model_filename LIKE @model")>> ELSE <<>>)
        \o <<Lit(" GROUP BY "), Interp(groupBy),
             Lit(" ORDER BY test_time ASC")>>,
      params |->
        {<<"testType", ValueOr(o.testType, TG)>>}
        \cup (IF Truthy(o.model)
              THEN {<<"model", LikePattern(o.model)>>} ELSE {})]

getBenchmarksFilteredQuery(o) ==
  LET models == ListOr(o.models, <<>>)
      gpus == ListOr(o.gpus, <<>>)
      testTypes == ListOr(o.testTypes, <<PP, TG>>)
      mainGpus == ListOr(o.mainGpus, <<>>)
      splitModes == ListOr(o.splitModes, <<>>)
      dimensionFilters == ListOr(o.dimensionFilters, <<>>)
      limit == ValueOr(o.limit, Num(DefaultLimit))
      In(list, column, name) ==
        IF Len(list) > 0
        THEN <<InCondition(Lit(column), name, Len(list))>> ELSE <<>>
      gpuConditions ==
        IF Len(gpus) > 0
        THEN <<<<Lit("(")>>
                 \o JoinPieces([i \in 1..Len(gpus) |->
                                  <<Lit("gpu_info LIKE "),
                                    Interp("@gpu" \o ToString(i - 1))>>],
                               Lit(" OR "))
                 \o <<Lit(")")>>>>
        ELSE <<>>
      conditions ==
        In(testTypes, "test_type", "testType")
        \o In(models, "model_filename", "model")
        \o gpuConditions
        \o In(mainGpus, "main_gpu", "mainGpu")
        \o In(splitModes, "split_mode", "splitMode")
        \o FilterConditions(dimensionFilters, "dimFilter")
  IN [text |->
        <<Lit("SELECT * FROM benchmarks ")>> \o WhereClause(conditions)
        \o <<Lit(" ORDER BY test_time DESC LIMIT @limit")>>,
      params |->
        BindList("testType", testTypes) \cup BindList("model", models)
        \cup BindList("gpu", [i \in 1..Len(gpus) |-> LikePattern(gpus[i])])
        \cup BindList("mainGpu", mainGpus)
        \cup BindList("splitMode", splitModes)
        \cup FilterParams(dimensionFilters, "dimFilter")
        \cup {<<"limit", limit>>}]

getDimensionalTrendsQuery(o) ==
  LET groupByDimensions == ListOr(o.groupByDimensions, <<>>)
      filters == ListOr(o.filters, <<>>)
      testTypes == ListOr(o.testTypes, <<PP, TG>>)
      models == ListOr(o.models, <<>>)
      allGroupBy == AllGroupBy(groupByDimensions)
      columns == [i \in 1..Len(allGroupBy) |-> <<Interp(allGroupBy[i])>>]
      In(list, column, name) ==
        IF Len(list) > 0
        THEN <<InCondition(Lit(column), name, Len(list))>> ELSE <<>>
      conditions ==
        In(testTypes, "test_type", "testType")
        \o In(models, "model_filename", "model")
        \o FilterConditions(filters, "filter")
  IN [text |->
        <<Lit("SELECT ")>> \o JoinPieces(columns, Lit(", "))
        \o <<Lit(", MAX(test_time) as test_time, AVG(tokens_per_second) as avg_tps, MIN(tokens_per_second) as min_tps, MAX(tokens_per_second) as max_tps, AVG(stddev) as avg_stddev, COUNT(*) as sample_count FROM benchmarks ")>>
        \o WhereClause(conditions)
        \o <<Lit(" GROUP BY ")>> \o JoinPieces(columns, Lit(", "))
        \o <<Lit(" ORDER BY test_time ASC")>>,
      params |->
        BindList("testType", testTypes) \cup BindList("model", models)
        \cup FilterParams(filters, "filter")]

\* no query is prepared for a dimension that is not a registry key
getDimensionValuesQuery(dimension) ==
  IF dimension \notin VALID_DIMENSION_KEYS THEN NoQuery
  ELSE [text |->
          <<Lit("SELECT "), Interp(dimension),
            Lit(" as value, COUNT(*) as count FROM benchmarks WHERE "),
            Interp(dimension), Lit(" IS NOT NULL GROUP BY "),
            Interp(dimension), Lit(" ORDER BY "), Interp(dimension)>>,
        params |-> {}]

-----------------------------------------------------------------------------

(* the clock *)

Tick ==
  /\ now < MaxClock
  /\ now' = now + 1
  /\ UNCHANGED <<rows, seq, tx, resp, assigned, raw, out, schema>>

-----------------------------------------------------------------------------
(* the server: the state after initialize(), then requests one at a time *)

NotRun == [done |-> FALSE, threw |-> FALSE, rec |-> <<>>]

Init ==
  /\ rows = <<>>
  /\ seq = 0
  /\ now = 0
  /\ tx = NoTx
  /\ resp = NoResponse
  /\ assigned = {}
  /\ raw = JsonObject(NoKeys)
  /\ out = NotRun
  /\ schema = FreshSchema

Next ==
  \/ \E body \in Bodies : PostBenchmarks(body)
  \/ StmtRun
  \/ Commit
  \/ \E ids \in DeleteBodies : DeleteBenchmarks(ids)
  \/ Tick

Spec == Init /\ [][Next]_vars

-----------------------------------------------------------------------------
(* models/benchmark.js: formatBenchmark *)

\* JSON.parse of the text of an array of integers, without its brackets
JsonParseElements(cs) ==
  LET parts == IF cs = <<>> THEN <<>> ELSE Split(cs, ",")
  IN IF \A i \in 1..Len(parts) : IsIntegerText(parts[i])
     THEN [ok |-> TRUE,
           v |-> Arr([i \in 1..Len(parts) |-> IntegerTextValue(parts[i])])]
     ELSE [ok |-> FALSE, v |-> Undefined]

\* JSON.parse of a text without white space: ok is FALSE when it throws
JsonParseText(cs) ==
  LET n == Len(cs) IN
    IF n >= 2 /\ cs[1] = "[" /\ cs[n] = "]"
    THEN JsonParseElements(SubSeq(cs, 2, n - 1))
    ELSE IF n >= 2 /\ cs[1] = "\"" /\ cs[n] = "\""
              /\ \A i \in 2..(n - 1) : cs[i] # "\""
    THEN [ok |-> TRUE, v |-> Str(SubSeq(cs, 2, n - 1))]
    ELSE IF cs = <<"t", "r", "u", "e">> THEN [ok |-> TRUE, v |-> Bool(TRUE)]
    ELSE IF cs = <<"f", "a", "l", "s", "e">> THEN [ok |-> TRUE, v |-> Bool(FALSE)]
    ELSE IF cs = <<"n", "u", "l", "l">> THEN [ok |-> TRUE, v |-> Null]
    ELSE IF cs = <<"{", "}">> THEN [ok |-> TRUE, v |-> Obj]
    ELSE IF IsIntegerText(cs) THEN [ok |-> TRUE, v |-> Num(IntegerTextValue(cs))]
    ELSE [ok |-> FALSE, v |-> Undefined]

\* ToString of the truthy argument of JSON.parse
TextOf(v) ==
  CASE v.t = "str" -> v.s
    [] v.t = "num" -> IntToChars(v.n)
    [] v.t = "bool" -> <<"t", "r", "u", "e">>
    [] v.t = "arr" -> JoinNumbers(v.e)
    [] v.t = "obj" -> <<"[", "o", "b", "j", "e", "c", "t", " ", "O", "b", "j",
                        "e", "c", "t", "]">>

\* the divisor 1e9 of formatBenchmark
Giga == 1000000000

\* the digits of h hundredths, as toFixed(2) writes them
HundredthsText(h) ==
  IntToChars(h \div 100) \o <<".">>
    \o <<Digits[((h \div 10) % 10) + 1], Digits[(h % 10) + 1]>>

\* (n / 1e9).toFixed(2) for an integer n: the quotient rounded to hundredths.
\* Exactly between two hundredths the digit depends on the double nearest to
\* the quotient, and both are outcomes.
ToFixed2Giga(n) ==
  LET m == IF n < 0 THEN 0 - n ELSE n
      unit == Giga \div 100
      q == m \div unit
      r == m % unit
      hs == IF 2 * r < unit THEN {q}
            ELSE IF 2 * r > unit THEN {q + 1} ELSE {q, q + 1}
  IN {Str((IF n < 0 THEN <<"-">> ELSE <<>>) \o HundredthsText(h)) : h \in hs}

\* benchmark.x ? (benchmark.x / 1e9).toFixed(2) : null
GigaField(v) ==
  IF ~Truthy(v) THEN {Null}
  ELSE IF ToNumber(v).t = "nan" THEN {Str(<<"N", "a", "N">>)}
  ELSE ToFixed2Giga(ToNumber(v).n)

\* mutant: samples stays the stored JSON text
formatBenchmarkKeepsText(benchmark) ==
  {[threw |-> FALSE,
    rec |-> [c \in DOMAIN benchmark \cup {"model_size_gb", "model_params_b"} |->
               IF c = "model_size_gb" THEN gb
               ELSE IF c = "model_params_b" THEN pb
               ELSE benchmark[c]]] :
     gb \in GigaField(benchmark["model_size"]),
     pb \in GigaField(benchmark["model_n_params"])}

\* formatBenchmark(benchmark): a new object with the fields of benchmark,
\* samples parsed and the two display fields added; threw when JSON.parse
\* throws
formatBenchmark(benchmark) ==
  LET text == benchmark["samples"]
      parsed == IF ~Truthy(text) THEN [ok |-> TRUE, v |-> Arr(<<>>)]
                ELSE JsonParseText(TextOf(text))
  IN IF ~parsed.ok THEN {[threw |-> TRUE, rec |-> <<>>]}
     ELSE {[threw |-> FALSE,
            rec |-> [c \in DOMAIN benchmark \cup {"model_size_gb", "model_params_b"} |->
                       IF c = "samples" THEN parsed.v
                       ELSE IF c = "model_size_gb" THEN gb
                       ELSE IF c = "model_params_b" THEN pb
                       ELSE benchmark[c]]] :
             gb \in GigaField(benchmark["model_size"]),
             pb \in GigaField(benchmark["model_n_params"])}

-----------------------------------------------------------------------------

(* the query layer: the store is written as above and read by the queries *)

\* insertBenchmark(data): one INSERT_BENCHMARK in a transaction of its own;
\* a value that cannot be bound is a TypeError and nothing is stored
\* db.prepare(INSERT_BENCHMARK) fails when the table lacks a column it names
Preparable(columns) == InsertColumns \subseteq ColumnNames(columns)

InsertBenchmark(data) ==
  /\ tx.pc = "idle"
  /\ schema.up
  /\ seq + 1 <= MaxId
  /\ IF Preparable(schema.columns) /\ AllBindable(data)
     THEN /\ rows' = Append(rows, StoredRow(data, NextId(rows, seq), now))
          /\ seq' = NextId(rows, seq)
          /\ assigned' = assigned \cup {NextId(rows, seq)}
          /\ resp' = Response("insertBenchmark", 200, 1)
     ELSE /\ resp' = Response("insertBenchmark", 500, 0)
          /\ UNCHANGED <<rows, seq, assigned, schema>>
  /\ UNCHANGED <<now, tx, raw, out, schema>>

\* db.prepare(query).all(params): the query returns one of its results
AnswerQuery(name, query, results) ==
  /\ tx.pc = "idle"
  /\ \E r \in results :
       resp' = [op |-> name, status |-> 200, n |-> 0, result |-> r,
                query |-> query]
  /\ UNCHANGED <<rows, seq, now, tx, assigned, raw, out, schema>>

\* a query whose text is fixed
Answer(name, results) == AnswerQuery(name, NoQuery, results)

GetBenchmarks(o) == Answer("getBenchmarks", getBenchmarks(rows, o))
GetBenchmarksFiltered(o) ==
  AnswerQuery("getBenchmarksFiltered", getBenchmarksFilteredQuery(o),
              getBenchmarksFiltered(rows, o))
GetModels == Answer("getModels", getModels(rows))
GetBuilds == Answer("getBuilds", getBuilds(rows))
GetGpus == Answer("getGpus", getGpus(rows))
GetTrends(o) ==
  AnswerQuery("getTrends", getTrendsQuery(o), getTrends(rows, o))
GetDimensionalTrends(o) ==
  AnswerQuery("getDimensionalTrends", getDimensionalTrendsQuery(o),
              getDimensionalTrends(rows, o))
GetComparisonData(o) == Answer("getComparisonData", getComparisonData(rows, o))
GetDimensionValues(dimension) ==
  AnswerQuery("getDimensionValues", getDimensionValuesQuery(dimension),
              getDimensionValues(rows, dimension))
GetAllDimensionValues ==
  Answer("getAllDimensionValues", getAllDimensionValues(rows))
GetStats == Answer("getStats", getStats(rows))

\* the limit GET /api/benchmarks falls back to
ApiLimit == 100
\* the limit the pages fall back to
PageLimit == 50

\* parseInt(value) || dflt
PageParam(value, dflt) == Or(ParseInt(value), Num(dflt))

\* the options the listing routes hand to getBenchmarks
ListOptions(q, limit) ==
  [limit |-> PageParam(q.limit, limit), offset |-> PageParam(q.offset, 0),
   model |-> q.model, commit |-> q.commit, testType |-> q.test_type,
   startDate |-> q.start_date, endDate |-> q.end_date]

\* the parameters getBenchmarks binds for LIMIT and OFFSET
PageParams(o) ==
  {<<"limit", ValueOr(o.limit, Num(DefaultLimit))>>,
   <<"offset", ValueOr(o.offset, Num(0))>>}

RECURSIVE FormatAll(_)
\* benchmarks.map(formatBenchmark)
FormatAll(bs) ==
  IF bs = <<>> THEN {[threw |-> FALSE, recs |-> <<>>]}
  ELSE {IF f.threw \/ rest.threw THEN [threw |-> TRUE, recs |-> <<>>]
        ELSE [threw |-> FALSE, recs |-> <<f.rec>> \o rest.recs] :
          f \in formatBenchmark(bs[1]), rest \in FormatAll(Tail(bs))}

\* GET /api/benchmarks: the rows as JSON
ApiBenchmarks(q) ==
  /\ tx.pc = "idle"
  /\ LET o == ListOptions(q, ApiLimit)
     IN \E r \in getBenchmarks(rows, o) :
          resp' = [op |-> "GET /api/benchmarks", status |-> 200, n |-> 0,
                   result |-> r,
                   query |-> [text |-> <<>>, params |-> PageParams(o)]]
  /\ UNCHANGED <<rows, seq, now, tx, assigned, raw, out, schema>>

\* GET /benchmarks and GET /partials/table: the formatted rows, rendered;
\* start_date and end_date are not read
PageBenchmarks(route, q) ==
  /\ tx.pc = "idle"
  /\ LET o == [ListOptions(q, PageLimit) EXCEPT !.startDate = Undefined,
                                               !.endDate = Undefined]
     IN \E r \in getBenchmarks(rows, o) :
          \E f \in FormatAll(r) :
            resp' = [op |-> route, status |-> IF f.threw THEN 500 ELSE 200,
                     n |-> 0, result |-> f.recs,
                     query |-> [text |-> <<>>, params |-> PageParams(o)]]
  /\ UNCHANGED <<rows, seq, now, tx, assigned, raw, out, schema>>

\* a llama-bench object with two GPUs
ObjectG ==
  JsonObject([NoKeys EXCEPT !["n_prompt"] = Num(0), !["n_gen"] = Num(5),
                            !["t_s"] = Num(7), !["stddev_ts"] = Num(1),
                            !["n_batch"] = Num(0),
                            !["gpu_info"] = Str(<<"x", ",", " ", "y">>),
                            !["model_filename"] = Str(<<"b">>),
                            !["build_commit"] = Str(<<"c">>),
                            !["build_number"] = Num(1)])

\* the submissions and deletions of the model of the query layer
QueryBodies == {TextBody(<<"A", "\n", "B", "\n">>), TextBody(<<"Z">>)}

QueryInserts == {ObjectG, ObjectU, ObjectB}

QueryDeletes == {ArrayIds(<<Num(1)>>), ArrayIds(<<Str(<<"2">>), Str(<<"x">>)>>)}

\* the options the queries are called with
BenchmarksOptions ==
  {[limit |-> Undefined, offset |-> Undefined, model |-> Undefined,
    commit |-> Undefined, testType |-> Undefined, startDate |-> Undefined,
    endDate |-> Undefined],
   [limit |-> Num(1), offset |-> Num(1), model |-> Undefined,
    commit |-> Undefined, testType |-> Undefined, startDate |-> Undefined,
    endDate |-> Undefined],
   [limit |-> Undefined, offset |-> Undefined, model |-> Str(<<"a">>),
    commit |-> Undefined, testType |-> Undefined, startDate |-> Undefined,
    endDate |-> Undefined],
   [limit |-> Undefined, offset |-> Undefined, model |-> Str(<<"A">>),
    commit |-> Str(<<"c">>), testType |-> TG,
    startDate |-> Str(ToISOString(0)), endDate |-> Str(ToISOString(1))]}

FilteredOptions ==
  {[models |-> NotGiven, gpus |-> NotGiven, testTypes |-> NotGiven,
    mainGpus |-> NotGiven, splitModes |-> NotGiven,
    dimensionFilters |-> NotGiven, limit |-> Undefined],
   [models |-> Given(<<Str(<<"b">>)>>), gpus |-> Given(<<Str(<<"Y">>)>>),
    testTypes |-> Given(<<>>), mainGpus |-> NotGiven, splitModes |-> NotGiven,
    dimensionFilters |->
      Given(<<FilterEntry("id", TRUE, <<Num(1)>>),
              FilterEntry("n_ctx", FALSE, <<>>),
              FilterEntry("backend", TRUE, <<>>),
              FilterEntry("n_batch", TRUE, <<Str(<<"0">>)>>),
              FilterEntry("not_a_real_column", TRUE, <<Num(1)>>),
              FilterEntry("n_gen", TRUE, <<Num(5), Num(7)>>)>>),
    limit |-> Num(1)]}

TrendsOptions ==
  {[model |-> Undefined, testType |-> Undefined, groupBy |-> NotNamed],
   [model |-> Undefined, testType |-> Undefined, groupBy |-> "model_filename"],
   [model |-> Str(<<"a">>), testType |-> PP, groupBy |-> "id"],
   [model |-> Undefined, testType |-> TG, groupBy |-> "nonexistent_column"]}

DimensionalOptions ==
  {[groupByDimensions |-> NotGiven, filters |-> NotGiven,
    testTypes |-> NotGiven, models |-> NotGiven],
   [groupByDimensions |-> Given(<<"n_batch", "id", "n_batch">>),
    filters |->
      Given(<<FilterEntry("id", TRUE, <<Num(1)>>),
              FilterEntry("flash_attn", TRUE, <<Num(0)>>),
              FilterEntry("split_mode", FALSE, <<>>),
              FilterEntry("n_batch", TRUE, <<Num(0)>>)>>),
    testTypes |-> Given(<<TG>>), models |-> Given(<<Str(<<"a">>), Str(<<"b">>)>>)]}

ComparisonOptions ==
  {[models |-> NotGiven, commits |-> NotGiven, testType |-> Undefined],
   [models |-> Given(<<Str(<<"a">>)>>), commits |-> Given(<<Str(<<"c">>)>>),
    testType |-> PP],
   [models |-> Given(<<Str(<<"x">>), Str(<<"a">>), Str(<<"b">>)>>),
    commits |-> Given(<<Str(<<"b">>), Str(<<"c">>)>>), testType |-> TG]}

DimensionNames == {"n_batch", "backend", "id"}

\* req.query of the listing routes: limit and offset as the URL gives them
PageQuery(limit, offset) ==
  [limit |-> limit, offset |-> offset, model |-> Undefined,
   commit |-> Undefined, test_type |-> Undefined, start_date |-> Undefined,
   end_date |-> Undefined]

ListQueries ==
  {PageQuery(Undefined, Undefined),
   PageQuery(Str(<<"0">>), Str(<<"0">>)),
   PageQuery(Str(<<"1">>), Str(<<"1">>)),
   PageQuery(Str(<<"a", "b", "c">>), Str(<<"x">>))}

PageRoutes == {"GET /benchmarks", "GET /partials/table"}

\* res.json(...) has written the response and the client has read it
ResponseSent ==
  /\ tx.pc = "idle"
  /\ resp # NoResponse
  /\ resp' = NoResponse
  /\ UNCHANGED <<rows, seq, now, tx, assigned, raw, out, schema>>

\* one client: it sends a request when it has read the response to the last
NextQueries ==
  \/ /\ resp = NoResponse
     /\ \/ \E body \in QueryBodies : PostBenchmarks(body)
        \/ \E data \in QueryInserts : InsertBenchmark(transformBenchmark(data, now))
        \/ \E ids \in QueryDeletes : DeleteBenchmarks(ids)
        \/ \E o \in BenchmarksOptions : GetBenchmarks(o)
        \/ \E o \in FilteredOptions : GetBenchmarksFiltered(o)
        \/ GetModels
        \/ GetBuilds
        \/ GetGpus
        \/ \E o \in TrendsOptions : GetTrends(o)
        \/ \E o \in DimensionalOptions : GetDimensionalTrends(o)
        \/ \E o \in ComparisonOptions : GetComparisonData(o)
        \/ \E dimension \in DimensionNames : GetDimensionValues(dimension)
        \/ GetAllDimensionValues
        \/ \E q \in ListQueries : ApiBenchmarks(q)
        \/ \E route \in PageRoutes, q \in ListQueries : PageBenchmarks(route, q)
        \/ GetStats
  \/ StmtRun
  \/ Commit
  \/ ResponseSent
  \/ Tick

SpecQueries == Init /\ [][NextQueries]_vars

-----------------------------------------------------------------------------
(* transformBenchmark on its own: one call on one decoded JSON value *)

\* the values a key of the input takes
FieldValues ==
  {Undefined, Null, Num(0 - 1), Num(0), Num(1), Num(5), Str(<<>>),
   Str(<<"0">>), Str(<<"5">>), Str(<<"a">>), Bool(TRUE), Bool(FALSE),
   Obj, Arr(<<>>), Arr(<<1, 2>>)}

\* model sizes: none, 1.5 GB, 7 MB, and 15 MB, which is 0.015 GB
SizeValues == {Null, Num(1500000000), Num(7000000), Num(15000000)}

SampleValues == {Undefined, Arr(<<>>), Arr(<<0 - 3, 10>>)}

\* pairs of keys one field of the result is computed from
KeyPairs ==
  {<<"n_prompt", "n_gen">>, <<"backend", "backends">>, <<"avg_ts", "t_s">>,
   <<"stddev_ts", "stddev">>, <<"flash_attn", "embeddings">>}

\* the inputs: objects with one key, or one pair of keys, set; and the
\* values that are no objects
TransformInputs ==
  {JsonObject([NoKeys EXCEPT ![k] = v]) : k \in RawKeys, v \in FieldValues}
  \cup {JsonObject([NoKeys EXCEPT ![p[1]] = v, ![p[2]] = w]) :
          p \in KeyPairs, v \in FieldValues, w \in FieldValues}
  \cup {JsonPrimitive(v) : v \in FieldValues \ {Obj}}
  \cup {JsonObject([NoKeys EXCEPT !["model_size"] = v,
                                  !["model_n_params"] = w,
                                  !["samples"] = a]) :
          v \in SizeValues, w \in SizeValues, a \in SampleValues}

InitTransform ==
  /\ rows = <<>>
  /\ seq = 0
  /\ now \in 0..MaxClock
  /\ tx = NoTx
  /\ resp = NoResponse
  /\ assigned = {}
  /\ raw \in TransformInputs
  /\ out = NotRun
  /\ schema = FreshSchema

\* out = transformBenchmark(raw), or the TypeError it throws
ApplyTransform ==
  /\ ~out.done
  /\ out' = IF CanReadProperty(raw)
            THEN [done |-> TRUE, threw |-> FALSE, rec |-> transformBenchmark(raw, now)]
            ELSE [done |-> TRUE, threw |-> TRUE, rec |-> <<>>]
  /\ UNCHANGED <<rows, seq, now, tx, resp, assigned, raw, schema>>

\* the record is handed to INSERT_BENCHMARK, as stmt.run(item) does
InsertTransformed ==
  /\ out.done /\ ~out.threw
  /\ resp = NoResponse
  /\ IF AllBindable(out.rec)
     THEN /\ rows' = Append(rows, StoredRow(out.rec, NextId(rows, seq), now))
          /\ seq' = NextId(rows, seq)
          /\ assigned' = assigned \cup {NextId(rows, seq)}
          /\ resp' = Response("post", 200, 1)
     ELSE /\ resp' = Response("post", 400, 0)
          /\ UNCHANGED <<rows, seq, assigned, schema>>
  /\ UNCHANGED <<now, tx, raw, out, schema>>

\* the record is handed to formatBenchmark
FormatBenchmark ==
  /\ out.done /\ ~out.threw
  /\ resp = NoResponse
  /\ \E f \in formatBenchmark(out.rec) :
       resp' = [Response("formatBenchmark", IF f.threw THEN 500 ELSE 200, 0)
                  EXCEPT !.result = f.rec]
  /\ UNCHANGED <<rows, seq, now, tx, assigned, raw, out, schema>>

NextTransform == ApplyTransform \/ InsertTransformed \/ FormatBenchmark

SpecTransform == InitTransform /\ [][NextTransform]_vars

-----------------------------------------------------------------------------
(* filterValidDimensions on its own: one call on one list of keys, and one *)
(* more on its result                                                       *)

\* the keys a caller sends: registry keys, a base column, a column that is
\* no dimension, a key in another case, a name that is no column
RequestedKeys ==
  {"n_batch", "backend", "build_commit", "id", "N_BATCH", "not_a_real_column"}

MaxKeys == 3

KeyLists == UNION {[1..n -> RequestedKeys] : n \in 0..MaxKeys}

InitDimensions ==
  /\ rows = <<>>
  /\ seq = 0
  /\ now = 0
  /\ tx = NoTx
  /\ resp = NoResponse
  /\ assigned = {}
  /\ raw \in KeyLists
  /\ out = NotRun
  /\ schema = FreshSchema

\* out = filterValidDimensions(raw)
FilterDimensions ==
  /\ ~out.done
  /\ out' = [done |-> TRUE, threw |-> FALSE, rec |-> filterValidDimensions(raw)]
  /\ UNCHANGED <<rows, seq, now, tx, resp, assigned, raw, schema>>

\* filterValidDimensions applied to its own result
FilterAgain ==
  /\ out.done
  /\ resp = NoResponse
  /\ resp' = [op |-> "filterValidDimensions", status |-> 200, n |-> 0,
              result |-> filterValidDimensions(out.rec), query |-> NoQuery]
  /\ UNCHANGED <<rows, seq, now, tx, assigned, raw, out, schema>>

NextDimensions == FilterDimensions \/ FilterAgain

SpecDimensions == InitDimensions /\ [][NextDimensions]_vars

-----------------------------------------------------------------------------
(* parseJsonl on its own: one call on a text of a few lines *)

\* the lines of the texts
ParseLines ==
  {<<"A">>, <<"B", " ">>, <<" ", "Z">>, <<" ">>, <<>>, <<"x">>, <<"5">>}

\* a text has at most MaxLines lines
MaxLines == 3

RECURSIVE JoinLines(_)
\* lines.join('\n')
JoinLines(ls) ==
  IF ls = <<>> THEN <<>>
  ELSE IF Len(ls) = 1 THEN ls[1]
  ELSE ls[1] \o <<"\n">> \o JoinLines(Tail(ls))

ParseTexts ==
  {JoinLines(ls) : ls \in UNION {[1..n -> ParseLines] : n \in 1..MaxLines}}

InitParse ==
  /\ rows = <<>>
  /\ seq = 0
  /\ now = 0
  /\ tx = NoTx
  /\ resp = NoResponse
  /\ assigned = {}
  /\ raw \in ParseTexts
  /\ out = NotRun
  /\ schema = FreshSchema

\* parseJsonl(raw): out.threw when it throws, out.rec the array it returns
ParseJsonl ==
  /\ ~out.done
  /\ LET parsed == parseJsonl(raw)
     IN out' = [done |-> TRUE, threw |-> ~parsed.ok, rec |-> parsed.data]
  /\ UNCHANGED <<rows, seq, now, tx, resp, assigned, raw, schema>>

NextParse == ParseJsonl

SpecParse == InitParse /\ [][NextParse]_vars

-----------------------------------------------------------------------------
(* db/index.js on its own: the process starts on a database file that is
   empty or was left by an earlier version, and is restarted *)

\* initialize() is not run more than MaxRuns times
MaxRuns == 2

\* the columns runMigrations looks for
MigratedNames == {"n_prompt", "n_gen", "split_mode", "main_gpu", "n_depth"}

\* the table of an earlier version that had, of those columns, only present
PriorColumns(present) ==
  SelectSeq(Append(CreateTableColumns, Column("n_depth", "INTEGER", "NULL")),
            LAMBDA c : c.name \notin MigratedNames \ present)

\* a row an earlier version stored in such a table
PriorRow(columns) ==
  [c \in ColumnNames(columns) |->
     IF c = "id" THEN Num(1)
     ELSE IF c = "created_at" THEN Str(CurrentTimestamp(0))
     ELSE IF c \in TextColumns THEN Str(<<"a">>)
     ELSE Num(5)]

AllIndexes ==
  {[name |-> "idx_build_commit", column |-> "build_commit"],
   [name |-> "idx_model_filename", column |-> "model_filename"],
   [name |-> "idx_test_time", column |-> "test_time"],
   [name |-> "idx_test_type", column |-> "test_type"],
   [name |-> "idx_gpu_info", column |-> "gpu_info"]}

\* the files the process may find
PriorDatabases ==
  {NoDatabase} \cup
  {[exists |-> TRUE, columns |-> PriorColumns(present), indexes |-> indexes,
    rows |-> IF stored THEN <<PriorRow(PriorColumns(present))>> ELSE <<>>,
    error |-> FALSE] :
     present \in SUBSET MigratedNames, indexes \in {{}, AllIndexes},
     stored \in BOOLEAN}

\* a llama-bench object with a context depth
ObjectD ==
  JsonObject([NoKeys EXCEPT !["n_prompt"] = Num(5), !["n_gen"] = Num(0),
                            !["n_depth"] = Num(3),
                            !["model_filename"] = Str(<<"b">>)])

SchemaInserts == {ObjectG, ObjectD}

InitSchema ==
  /\ \E d \in PriorDatabases :
       /\ schema = SchemaOf(d, FALSE, 0)
       /\ rows = d.rows
       /\ seq = Len(d.rows)
       /\ assigned = {d.rows[i]["id"].n : i \in 1..Len(d.rows)}
  /\ now = 0
  /\ tx = NoTx
  /\ resp = NoResponse
  /\ raw = JsonObject(NoKeys)
  /\ out = NotRun

\* the process starts: db.initialize(), then app.listen(); a throw ends it
Initialize ==
  /\ ~schema.up
  /\ schema.runs < MaxRuns
  /\ LET d == initialize([exists |-> schema.exists, columns |-> schema.columns,
                          indexes |-> schema.indexes, rows |-> rows,
                          error |-> FALSE])
     IN /\ schema' = SchemaOf(d, ~d.error,
                              IF d.error THEN schema.runs ELSE schema.runs + 1)
        /\ rows' = d.rows
  /\ UNCHANGED <<seq, now, tx, resp, assigned, raw, out>>

\* the process ends; the file stays
Restart ==
  /\ schema.up
  /\ tx.pc = "idle"
  /\ schema' = [schema EXCEPT !.up = FALSE]
  /\ UNCHANGED <<rows, seq, now, tx, resp, assigned, raw, out>>

NextSchema ==
  \/ Initialize
  \/ Restart
  \/ \E data \in SchemaInserts : InsertBenchmark(transformBenchmark(data, now))

SpecSchema == InitSchema /\ [][NextSchema]_vars

-----------------------------------------------------------------------------

(* Properties of the store and of the routes, checked under Spec *)

\* the POST handler's call of insertBenchmarks returns or throws in this step
InsertManyEnds == tx.pc = "insertMany" /\ tx'.pc = "idle"

\* the ids of the rows of the running batch that another connection sees
BatchVisible == {i \in RowIds(Visible) : i > tx.snapSeq}

\* C1: insertBenchmarks is atomic.  While one call runs, a reader sees none
\* or all of the batch's rows, never some of them; and when a statement of
\* the batch fails, the table is left as it was before the call.
C1_InsertManyAtomic ==
  [][/\ tx'.pc = "insertMany" =>
          Cardinality(BatchVisible') \in {0, Len(tx'.items)}
     /\ (InsertManyEnds /\ resp'.status = 400) =>
          (rows' = tx.snapRows /\ Visible' = tx.snapRows)
     /\ (InsertManyEnds /\ resp'.status = 200) =>
          Cardinality({i \in RowIds(Visible') : i > tx.snapSeq}) = Len(tx.items)]_vars

\* one row of a batch of two is inserted, invisible to readers, and the
\* second statement is about to fail
C1_Witness ==
  /\ tx.pc = "insertMany"
  /\ Len(tx.items) = 2 /\ tx.i = 2
  /\ ~AllBindable(tx.items[2])
  /\ Len(rows) = Len(Visible) + 1

InvalidLine(body) ==
  /\ body.kind = "text"
  /\ LET ls == NonBlank(Split(body.text, "\n"))
     IN \E i \in 1..Len(ls) : ~JsonValid(ls[i])

NonObjectRecord(body) ==
  \/ /\ body.kind = "array"
     /\ \E i \in 1..Len(body.items) : body.items[i].v.t # "obj"
  \/ /\ body.kind = "text"
     /\ LET ls == NonBlank(Split(body.text, "\n"))
        IN \E i \in 1..Len(ls) :
             JsonValid(ls[i]) /\ JsonParse(ls[i]).v.t # "obj"

Malformed(body) == InvalidLine(body) \/ NonObjectRecord(body)

\* C2: POST /api/benchmarks answers a payload holding an invalid JSON line or
\* a record that is no JSON object with an error, and inserts no row.
C2_RejectsMalformed ==
  [][/\ \A body \in Bodies :
          (PostBenchmarks(body) /\ Malformed(body) /\ tx'.pc = "idle") =>
            (resp'.status = 400 /\ rows' = rows)
     /\ (InsertManyEnds /\ Malformed(tx.body)) =>
          (resp'.status = 400 /\ rows' = tx.snapRows)]_vars

\* the first characters of the non-blank lines of a text
LineStarts(cs) ==
  {j \in 1..Len(cs) :
     /\ ~IsSpace(cs[j])
     /\ \A h \in 1..(j - 1) :
          (\A m \in h..(j - 1) : cs[m] # "\n") => IsSpace(cs[h])}

ExpectedCount(body) ==
  CASE body.kind \in {"object", "ndjson"} -> 1
    [] body.kind = "array" -> Len(body.items)
    [] body.kind = "text" -> Cardinality(LineStarts(body.text))

\* C3: on success the reported count is the number of rows the call added:
\* 1 for an object, n for an array of n, the non-blank lines of a JSONL text.
C3_InsertedCount ==
  [][(InsertManyEnds /\ resp'.status = 200) =>
       /\ resp'.op = "post"
       /\ Len(rows') = Len(tx.snapRows) + resp'.n
       /\ SubSeq(rows', 1, Len(tx.snapRows)) = tx.snapRows
       /\ resp'.n = ExpectedCount(tx.body)]_vars

C3_Witness ==
  /\ tx.pc = "idle"
  /\ resp.op = "post" /\ resp.status = 200 /\ resp.n = 2
  /\ Len(rows) = 2

\* C4: the stored rows have distinct ids, a row keeps its id, and a new row
\* never gets an id that a committed row has held, deleted or not.
C4_IdsNeverReused ==
  [][/\ Cardinality(RowIds(rows')) = Len(rows')
     /\ \A i \in RowIds(rows') \ RowIds(rows) : i \notin assigned
     /\ KeepRows(rows', RowIds(rows)) = KeepRows(rows, RowIds(rows'))]_vars

\* row 1 was committed and deleted; the next row inserted has id 2
C4_Witness ==
  /\ tx.pc = "insertMany"
  /\ tx.snapRows = <<>> /\ 1 \in assigned
  /\ Len(rows) = 1 /\ rows[1]["id"] = Num(2)

IdNumbers(ids) ==
  {ParseInt(ids.list[i]).n :
     i \in {j \in 1..Len(ids.list) : ParseInt(ids.list[j]).t = "num"}}

\* C5: deleteBenchmarks removes exactly the rows whose id is listed, leaves
\* the others as they are and returns how many it removed; ids that match no
\* row do not count, and an empty list is answered 0.
C5_DeleteExactly ==
  [][/\ (tx.pc = "idle" /\ resp'.op = "delete" /\ resp'.status = 200) =>
          \A ids \in DeleteBodies :
            DeleteBenchmarks(ids) =>
              /\ rows' = KeepRows(rows, {i \in RowIds(rows) : i \notin IdNumbers(ids)})
              /\ resp'.n = Cardinality(RowIds(rows) \cap IdNumbers(ids))
     /\ deleteBenchmarks(rows, <<>>) = [rows |-> rows, changes |-> 0]]_vars

\* a delete has removed one of the two rows stored
C5_Witness ==
  /\ resp.op = "delete" /\ resp.status = 200 /\ resp.n = 1
  /\ Len(rows) = 1 /\ Cardinality(assigned) = 2

NoIdParses(ids) ==
  \A i \in 1..Len(ids.list) : ParseInt(ids.list[i]).t = "nan"

\* C6: DELETE /api/benchmarks with ids absent, no array, empty, or without a
\* value that parses as an integer answers 400 and leaves the store as it is.
C6_DeleteValidation ==
  [][(tx.pc = "idle" /\ resp'.op = "delete") =>
       \A ids \in {b \in DeleteBodies : b.kind # "array" \/ NoIdParses(b)} :
         DeleteBenchmarks(ids) => (resp'.status = 400 /\ rows' = rows)]_vars

C6_Witness ==
  /\ resp.op = "delete" /\ resp.status = 400
  /\ Len(rows) > 0

-----------------------------------------------------------------------------
(* Properties of transformBenchmark, checked under SpecTransform *)

NumberOrAbsent(v) == v.t \in {"num", "null", "undef"}
Positive(v) == v.t = "num" /\ v.n > 0
ZeroOrAbsent(v) == v.t \in {"null", "undef"} \/ (v.t = "num" /\ v.n = 0)

ExpectedTestType(p, g) ==
  IF Positive(p) /\ ZeroOrAbsent(g) THEN PP
  ELSE IF Positive(g) /\ ZeroOrAbsent(p) THEN TG
  ELSE IF Positive(p) /\ Positive(g) THEN PPTG
  ELSE Null

Transformed == out.done /\ ~out.threw

\* C8: for token counts that are numbers or absent, test_type is pp for a
\* positive n_prompt with n_gen zero or absent, tg for the converse, pp+tg
\* when both are positive, and null otherwise; 0 and absent are alike.
C8_TestType ==
  (Transformed /\ NumberOrAbsent(Prop(raw, "n_prompt"))
               /\ NumberOrAbsent(Prop(raw, "n_gen"))) =>
    out.rec["test_type"] =
      ExpectedTestType(Prop(raw, "n_prompt"), Prop(raw, "n_gen"))

C8_Witness ==
  /\ Transformed
  /\ Prop(raw, "n_prompt") = Num(0) /\ Prop(raw, "n_gen") = Num(5)
  /\ out.rec["test_type"] = TG

NumericConfigKeys ==
  {"n_prompt", "n_gen", "n_depth", "n_batch", "n_ubatch", "n_threads",
   "n_gpu_layers", "n_ctx", "main_gpu"}

\* C9: each numeric test-configuration field keeps an explicit 0 and becomes
\* null only when the key is absent or null; the stored row holds the same.
C9_ZeroPreserved ==
  Transformed =>
    \A k \in NumericConfigKeys :
      /\ Prop(raw, k) = Num(0) => out.rec[k] = Num(0)
      /\ out.rec[k] = Null <=> Prop(raw, k) \in {Null, Undefined}
      /\ \A i \in 1..Len(rows) :
           /\ Prop(raw, k) = Num(0) => rows[i][k] = Num(0)
           /\ rows[i][k] = Null <=> Prop(raw, k) \in {Null, Undefined}

C9_Witness ==
  /\ Transformed
  /\ Prop(raw, "n_batch") = Num(0)
  /\ Len(rows) = 1 /\ rows[1]["n_batch"] = Num(0)

FlagKeys == {"flash_attn", "embeddings"}

\* C10: flash_attn and embeddings come out as 1 for a truthy input and as 0
\* otherwise, never null, and so does every row stored from the record.
C10_FlagsZeroOne ==
  Transformed =>
    \A k \in FlagKeys :
      /\ out.rec[k] \in {Num(0), Num(1)}
      /\ out.rec[k] = Num(1) <=> Truthy(Prop(raw, k))
      /\ \A i \in 1..Len(rows) : rows[i][k] = out.rec[k]

C10_Witness ==
  /\ Transformed
  /\ Prop(raw, "flash_attn") = Str(<<"a">>)
  /\ Len(rows) = 1 /\ rows[1]["flash_attn"] = Num(1)

\* a key is present: the input holds a value for it
Present(v) == v.t \notin {"undef", "null"}

\* the value of the first present key of the two, null when neither is
FirstPresent(data, first, second) ==
  IF Present(Prop(data, first)) THEN Prop(data, first)
  ELSE IF Present(Prop(data, second)) THEN Prop(data, second)
  ELSE Null

\* C11: tokens_per_second is the value of the first present key of avg_ts and
\* t_s, stddev that of stddev_ts and stddev; a present first key wins whatever
\* its value, 0 included, and the result is null only when neither is present.
C11_FirstPresentWins ==
  Transformed =>
    /\ out.rec["tokens_per_second"] = FirstPresent(raw, "avg_ts", "t_s")
    /\ out.rec["stddev"] = FirstPresent(raw, "stddev_ts", "stddev")

-----------------------------------------------------------------------------
(* Properties of filterValidDimensions, checked under SpecDimensions *)

\* the keys of the registry, entry by entry of DIMENSIONS
RegistryKeys ==
  {"n_gpu_layers", "split_mode", "main_gpu", "n_batch", "n_ubatch", "n_ctx",
   "n_prompt", "n_gen", "n_depth", "flash_attn", "cache_type_k",
   "cache_type_v", "embeddings", "n_threads", "backend"}

\* the positions of keys that hold a registry key
RegistryPositions(keys) == {i \in 1..Len(keys) : keys[i] \in RegistryKeys}

\* the j-th of them, counted from the left
NthPosition(keys, j) ==
  CHOOSE i \in RegistryPositions(keys) :
    Cardinality({h \in RegistryPositions(keys) : h < i}) = j - 1

\* C12: filterValidDimensions(keys) returns exactly the elements of keys that
\* are registry keys, in their input order; the others are dropped without an
\* error; and applied to its own result it returns that result.
C12_FilterValidDimensions ==
  /\ out.done =>
       /\ ~out.threw
       /\ Len(out.rec) = Cardinality(RegistryPositions(raw))
       /\ \A j \in 1..Len(out.rec) : out.rec[j] = raw[NthPosition(raw, j)]
  /\ resp.op = "filterValidDimensions" => resp.result = out.rec

\* ['n_batch', 'not_a_real_column', 'backend'] gives ['n_batch', 'backend'],
\* and so does filtering that again
C12_Witness ==
  /\ raw = <<"n_batch", "not_a_real_column", "backend">>
  /\ out.done /\ out.rec = <<"n_batch", "backend">>
  /\ resp.op = "filterValidDimensions" /\ resp.result = <<"n_batch", "backend">>

-----------------------------------------------------------------------------
(* Properties of the query layer, checked under SpecQueries *)

QueryNames ==
  {"getBenchmarks", "getBenchmarksFiltered", "getModels", "getBuilds",
   "getGpus", "getTrends", "getDimensionalTrends", "getComparisonData",
   "getDimensionValues", "getStats"}

\* the step stores r as INSERT_BENCHMARK stores the record it is handed
InsertsRow(r) ==
  \/ /\ tx.pc = "insertMany" /\ tx.i <= Len(tx.items)
     /\ r = StoredRow(tx.items[tx.i], r["id"].n, now)
  \/ /\ tx.pc = "idle" /\ resp'.op = "insertBenchmark"
     /\ \E data \in QueryInserts :
          r = StoredRow(transformBenchmark(data, now), r["id"].n, now)

\* C7: stored rows are never updated in place.  A row that stays in the
\* table keeps its field values; a row enters only as an insert stores it;
\* rows leave only by deleteBenchmarks (or, uncommitted, by the rollback of
\* their batch); and the step of each of the ten queries leaves the table
\* as it is.
C7_NeverUpdatedInPlace ==
  [][/\ KeepRows(rows', RowIds(rows)) = KeepRows(rows, RowIds(rows'))
     /\ \A i \in 1..Len(rows') :
          rows'[i]["id"].n \notin RowIds(rows) => InsertsRow(rows'[i])
     /\ RowIds(rows) \ RowIds(rows') # {} =>
          \/ tx.pc = "idle" /\ resp'.op = "delete"
          \/ tx.pc = "insertMany" /\ resp'.status = 400 /\ rows' = tx.snapRows
     /\ \A name \in QueryNames :
          (resp'.op = name /\ resp' # resp) => (rows' = rows /\ seq' = seq)]_vars

\* rows were inserted, one was deleted, and a query has read the table
C7_Witness ==
  /\ resp.op = "getStats"
  /\ resp.result.total_benchmarks = Num(1)
  /\ Len(rows) = 1 /\ Cardinality(assigned) = 2

\* the columns a dynamic query may name: the registry keys and the fixed
\* base columns
AllowListedColumns ==
  {"build_commit", "model_filename", "model_type", "gpu_info", "test_type",
   "backend",
   "n_gpu_layers", "split_mode", "main_gpu", "n_batch", "n_ubatch", "n_ctx",
   "n_prompt", "n_gen", "n_depth", "flash_attn", "cache_type_k",
   "cache_type_v", "embeddings", "n_threads"}

RECURSIVE Concat(_)
Concat(cs) == IF cs = <<>> THEN "" ELSE cs[1] \o Concat(Tail(cs))

\* a value as it would read inside a query text
ValueText(v) == IF v.t = "num" THEN ToString(v.n) ELSE Concat(v.s)

Interpolated(q) == {q.text[i].s : i \in {j \in 1..Len(q.text) : ~q.text[j].lit}}

BoundNames(q) == {"@" \o p[1] : p \in q.params}

Supplied(o, lists) ==
  UNION {SeqSet(ListOr(o[l], <<>>)) : l \in lists}

FilterValues(filters) ==
  UNION {SeqSet(filters[i].values) : i \in 1..Len(filters)}

\* every interpolated piece of q is an allow-listed column or the name of a
\* bound parameter, and none of the values reads in the text
SafeQuery(q, values) ==
  /\ Interpolated(q) \subseteq AllowListedColumns \cup BoundNames(q)
  /\ \A v \in values \ {Undefined} :
       \A i \in 1..Len(q.text) : q.text[i].s # ValueText(v)

\* C13: in the queries getTrends, getDimensionalTrends, getBenchmarksFiltered
\* and getDimensionValues build, every interpolated column name is a registry
\* key or a fixed base column, whatever the caller sent, and the caller's
\* filter values are bound parameters, never part of the text.
C13_QueryTextAllowListed ==
  [][/\ resp'.op = "getTrends" =>
          \A o \in TrendsOptions :
            GetTrends(o) => SafeQuery(resp'.query, {o.model, o.testType})
     /\ resp'.op = "getDimensionalTrends" =>
          \A o \in DimensionalOptions :
            GetDimensionalTrends(o) =>
              SafeQuery(resp'.query,
                        Supplied(o, {"testTypes", "models"})
                          \cup FilterValues(ListOr(o.filters, <<>>)))
     /\ resp'.op = "getBenchmarksFiltered" =>
          \A o \in FilteredOptions :
            GetBenchmarksFiltered(o) =>
              SafeQuery(resp'.query,
                        Supplied(o, {"testTypes", "models", "gpus", "mainGpus",
                                     "splitModes"})
                          \cup FilterValues(ListOr(o.dimensionFilters, <<>>))
                          \cup {o.limit})
     /\ resp'.op = "getDimensionValues" =>
          \A dimension \in DimensionNames :
            GetDimensionValues(dimension) => SafeQuery(resp'.query, {})]_vars

\* getDimensionalTrends was asked to group by n_batch and by id: its text
\* names n_batch and not id, and the filter value is bound to @filter0_0
C13_Witness ==
  /\ resp.op = "getDimensionalTrends"
  /\ "n_batch" \in Interpolated(resp.query)
  /\ "id" \notin Interpolated(resp.query)
  /\ <<"filter0_0", Num(0)>> \in resp.query.params
  /\ Len(resp.result) > 0

\* the calls of getTrends whose groupBy is no allow-listed column
UnknownGroupBy ==
  {o \in TrendsOptions : o.groupBy \notin AllowListedColumns \cup {NotNamed}}

GroupedByCommit(o) == [o EXCEPT !.groupBy = "build_commit"]

\* C14: getTrends with a groupBy that is neither a registry key nor a fixed
\* base column does not raise and answers as getTrends with groupBy =
\* 'build_commit' and the same other arguments answers.
C14_GroupByFallback ==
  [][resp'.op = "getTrends" =>
       \A o \in UnknownGroupBy :
         GetTrends(o) =>
           /\ resp'.status = 200
           /\ resp'.result \in getTrends(rows, GroupedByCommit(o))
           /\ getTrends(rows, o) = getTrends(rows, GroupedByCommit(o))
           /\ resp'.query = getTrendsQuery(GroupedByCommit(o))
           /\ \A i \in 1..Len(resp'.result) :
                "build_commit" \in DOMAIN resp'.result[i]]_vars

\* getTrends({ model: 'a', testType: 'pp', groupBy: 'id' }) has answered one
\* row, grouped by build_commit
C14_Witness ==
  /\ resp.op = "getTrends"
  /\ <<"testType", PP>> \in resp.query.params
  /\ Len(resp.result) = 1
  /\ "build_commit" \in DOMAIN resp.result[1]
  /\ resp.result[1]["build_commit"] = Str(<<"c">>)

\* the rows that pass the filters of getDimensionalTrends called with o
PassingDimensional(o) ==
  {r \in RowSet(rows) :
     /\ SqlInList("test_type", r["test_type"], ListOr(o.testTypes, <<PP, TG>>))
          \/ ListOr(o.testTypes, <<PP, TG>>) = <<>>
     /\ SqlInList("model_filename", r["model_filename"], ListOr(o.models, <<>>))
          \/ ListOr(o.models, <<>>) = <<>>
     /\ MatchesFilters(r, ListOr(o.filters, <<>>))}

\* the grouping columns the claim names for the call
ClaimedGroupBy(o) ==
  {"build_commit", "model_filename", "test_type"}
    \cup (SeqSet(ListOr(o.groupByDimensions, <<>>)) \cap RegistryKeys)

\* t is the largest test_time among the rows G
IsLatest(t, G) ==
  /\ \E r \in G : r["test_time"] = t
  /\ \A r \in G : ~SqlLess(t, r["test_time"])

\* how often the GROUP BY clause of the text names column c
Mentions(q, c) ==
  LET g == CHOOSE i \in 1..Len(q.text) : q.text[i] = Lit(" GROUP BY ")
  IN Cardinality({i \in (g + 1)..Len(q.text) : q.text[i] = Interp(c)})

\* C15: getDimensionalTrends groups by build_commit, model_filename and
\* test_type and the registry-valid columns asked for, each once however
\* often it was asked for; it answers one row per distinct tuple of these
\* columns among the rows that pass the filters, with test_time the largest
\* test_time of the group, the rows in ascending order of that test_time.
C15_DimensionalGrouping ==
  [][resp'.op = "getDimensionalTrends" =>
       \A o \in DimensionalOptions :
         GetDimensionalTrends(o) =>
           LET cols == ClaimedGroupBy(o)
               S == PassingDimensional(o)
               res == resp'.result
           IN /\ \A c \in Columns :
                   Mentions(resp'.query, c) = IF c \in cols THEN 1 ELSE 0
              /\ \A i \in 1..Len(res) :
                   /\ DOMAIN res[i] = cols \cup DimensionalColumns
                   /\ IsLatest(res[i]["test_time"],
                               {r \in S : KeyOf(r, cols) = KeyOf(res[i], cols)})
              /\ {KeyOf(res[i], cols) : i \in 1..Len(res)}
                   = {KeyOf(r, cols) : r \in S}
              /\ Len(res) = Cardinality({KeyOf(r, cols) : r \in S})
              /\ \A i, j \in 1..Len(res) :
                   i < j => ~SqlLess(res[j]["test_time"], res[i]["test_time"])]_vars

\* two rows of one group stored at different times, n_batch asked for twice:
\* one row is answered, with the later test_time
C15_Witness ==
  /\ resp.op = "getDimensionalTrends"
  /\ Len(rows) = 2 /\ rows[1]["test_time"] # rows[2]["test_time"]
  /\ Len(resp.result) = 1
  /\ "n_batch" \in DOMAIN resp.result[1]
  /\ resp.result[1]["sample_count"] = Num(2)
  /\ resp.result[1]["test_time"] = rows[2]["test_time"]

\* an entry the claim calls invalid, and the list without its i-th entry
InvalidEntry(f) ==
  f.dimension \notin RegistryKeys \/ ~f.isArray \/ f.values = <<>>

WithoutEntry(filters, i) ==
  SubSeq(filters, 1, i - 1) \o SubSeq(filters, i + 1, Len(filters))

\* row r lies in the IN-set of every valid entry
InEveryValidSet(r, filters) ==
  \A i \in 1..Len(filters) :
    ~InvalidEntry(filters[i]) =>
      \E j \in 1..Len(filters[i].values) :
        /\ r[filters[i].dimension].t # "null"
        /\ r[filters[i].dimension]
             = ApplyAffinity(filters[i].dimension, filters[i].values[j])

\* C16: in getDimensionalTrends and getBenchmarksFiltered a filter entry whose
\* key is no registry key, or whose value is not a non-empty array, is dropped
\* without an error: the call answers as the call without that entry answers,
\* and the valid entries are still applied, all of them, as IN-set conditions.
C16_InvalidFiltersDropped ==
  [][/\ resp'.op = "getDimensionalTrends" =>
          \A o \in DimensionalOptions :
            GetDimensionalTrends(o) =>
              LET filters == ListOr(o.filters, <<>>) IN
                /\ resp'.status = 200
                /\ \A i \in 1..Len(filters) :
                     InvalidEntry(filters[i]) =>
                       LET less == [o EXCEPT !.filters =
                                      Given(WithoutEntry(filters, i))]
                       IN /\ getDimensionalTrends(rows, o)
                               = getDimensionalTrends(rows, less)
                          /\ resp'.result \in getDimensionalTrends(rows, less)
                /\ \A k \in 1..Len(resp'.result) :
                     resp'.result[k]["sample_count"] =
                       Num(Cardinality(
                         {r \in RowSet(rows) :
                            /\ KeyOf(r, ClaimedGroupBy(o))
                                 = KeyOf(resp'.result[k], ClaimedGroupBy(o))
                            /\ r \in PassingDimensional([o EXCEPT !.filters = NotGiven])
                            /\ InEveryValidSet(r, filters)}))
     /\ resp'.op = "getBenchmarksFiltered" =>
          \A o \in FilteredOptions :
            GetBenchmarksFiltered(o) =>
              LET filters == ListOr(o.dimensionFilters, <<>>) IN
                /\ resp'.status = 200
                /\ \A i \in 1..Len(filters) :
                     InvalidEntry(filters[i]) =>
                       LET less == [o EXCEPT !.dimensionFilters =
                                      Given(WithoutEntry(filters, i))]
                       IN /\ getBenchmarksFiltered(rows, o)
                               = getBenchmarksFiltered(rows, less)
                          /\ resp'.result \in getBenchmarksFiltered(rows, less)
                /\ \A k \in 1..Len(resp'.result) :
                     InEveryValidSet(resp'.result[k], filters)
                /\ (Len(resp'.result) = 0) =
                     ({r \in RowSet(rows) :
                         /\ getBenchmarksFiltered(
                              <<r>>, [o EXCEPT !.dimensionFilters = NotGiven])
                              # {<<>>}
                         /\ InEveryValidSet(r, filters)} = {})]_vars

\* getBenchmarksFiltered was called with entries for id, n_ctx (no array),
\* backend (empty), n_batch, not_a_real_column and n_gen: the n_batch values
\* are bound as the first filter, the n_gen values as the second, and the
\* row of id 2 is answered although the entry for id lists 1 only
C16_Witness ==
  /\ resp.op = "getBenchmarksFiltered"
  /\ <<"dimFilter0_0", Str(<<"0">>)>> \in resp.query.params
  /\ <<"dimFilter1_1", Num(7)>> \in resp.query.params
  /\ Len(resp.result) = 1
  /\ resp.result[1]["id"] = Num(2)
  /\ resp.result[1]["n_batch"] = Num(0)

\* the rows S, the one inserted last first (ids grow with every insert)
NewestFirst(S) ==
  CHOOSE s \in [1..Cardinality(S) -> S] :
    \A i, j \in 1..Cardinality(S) : i < j => s[i]["id"].n > s[j]["id"].n

\* the rows that match the filters of getBenchmarks called with o
MatchingBenchmarks(o) ==
  UNION {SeqSet(s) :
           s \in getBenchmarks(rows, [o EXCEPT !.limit = Num(0 - 1),
                                               !.offset = Num(0)])}

\* C17: getBenchmarks answers the matching rows newest-inserted first (of any
\* two rows answered, the one inserted later comes first, also when both came
\* in one bulk submission), without the first offset of them and at most
\* limit of them; limit is 100 and offset 0 when left out.
C17_NewestInsertedFirst ==
  [][resp'.op = "getBenchmarks" =>
       \A o \in BenchmarksOptions :
         GetBenchmarks(o) =>
           resp'.result =
             Limit(NewestFirst(MatchingBenchmarks(o)),
                   ValueOr(o.limit, Num(100)).n, ValueOr(o.offset, Num(0)).n)]_vars

\* getBenchmarks({ model: 'a' })
ByModelA ==
  [limit |-> Undefined, offset |-> Undefined, model |-> Str(<<"a">>),
   commit |-> Undefined, testType |-> Undefined, startDate |-> Undefined,
   endDate |-> Undefined]

\* the objects of the lines of a JSONL text
LinesOf(body) == parseJsonl(body.text).data

\* a JSONL payload whose lines are objects with 'a' in their model filename
JsonlOfModelA(body) ==
  /\ body.kind = "text"
  /\ parseJsonl(body.text).ok
  /\ \A i \in 1..Len(LinesOf(body)) :
       /\ LinesOf(body)[i].v.t = "obj"
       /\ Prop(LinesOf(body)[i], "model_filename").t = "str"
       /\ SqlContains(Prop(LinesOf(body)[i], "model_filename"), <<"a">>)

\* the answer res holds, for each line of the payload, one row the submission
\* stored, with the line's test type and the line's avg_ts
OneRowPerLine(res, lines, first) ==
  /\ Cardinality({k \in 1..Len(res) : res[k]["id"].n >= first}) = Len(lines)
  /\ \A i \in 1..Len(lines) :
       \E k \in 1..Len(res) :
         /\ res[k]["id"].n = first + i - 1
         /\ res[k]["test_type"] =
              ExpectedTestType(Prop(lines[i], "n_prompt"), Prop(lines[i], "n_gen"))
         /\ res[k]["tokens_per_second"] = Prop(lines[i], "avg_ts")

\* C18: once a JSONL payload of valid objects is submitted, getBenchmarks
\* filtered by a substring of their model filename answers one row per line,
\* each with the test_type of the line's (n_prompt, n_gen) and with
\* tokens_per_second the line's avg_ts; the two-line pp/tg payload is
\* answered inserted: 2 and its rows read pp and tg.
C18_EndToEnd ==
  [][(InsertManyEnds /\ JsonlOfModelA(tx.body)) =>
       /\ resp'.status = 200
       /\ resp'.n = Len(LinesOf(tx.body))
       /\ \A res \in getBenchmarks(rows', ByModelA) :
            OneRowPerLine(res, LinesOf(tx.body), tx.snapSeq + 1)
       /\ tx.body = TextBody(<<"A", "\n", "B", "\n">>) =>
            /\ resp'.n = 2
            /\ \A res \in getBenchmarks(rows', ByModelA) :
                 {res[k]["test_type"] :
                    k \in {h \in 1..Len(res) : res[h]["id"].n > tx.snapSeq}}
                   = {PP, TG}]_vars

\* the stored rows getComparisonData called with o compares
Compared(o) ==
  {r \in RowSet(rows) :
     /\ r["test_type"] = ValueOr(o.testType, TG)
     /\ ListOr(o.models, <<>>) # <<>> =>
          r["model_filename"] \in SeqSet(ListOr(o.models, <<>>))
     /\ ListOr(o.commits, <<>>) # <<>> =>
          r["build_commit"] \in SeqSet(ListOr(o.commits, <<>>))}

PairOf(r) == <<r["model_filename"], r["build_commit"]>>

\* C19: getComparisonData answers exactly one row per distinct pair
\* (model_filename, build_commit) among the stored rows whose test_type is
\* testType ('tg' when left out) and whose model and commit are in the given
\* sets when these are not empty; runs is the number of those rows of the
\* pair; the rows come ordered by model_filename, then build_commit.
C19_ComparisonGroups ==
  [][resp'.op = "getComparisonData" =>
       \A o \in ComparisonOptions :
         GetComparisonData(o) =>
           LET res == resp'.result
               S == Compared(o)
           IN /\ {PairOf(res[k]) : k \in 1..Len(res)} = {PairOf(r) : r \in S}
              /\ Len(res) = Cardinality({PairOf(r) : r \in S})
              /\ \A k \in 1..Len(res) :
                   res[k]["runs"] =
                     Num(Cardinality({r \in S : PairOf(r) = PairOf(res[k])}))
              /\ \A i, j \in 1..Len(res) :
                   i < j =>
                     \/ SqlLess(res[i]["model_filename"], res[j]["model_filename"])
                     \/ /\ res[i]["model_filename"] = res[j]["model_filename"]
                        /\ SqlLess(res[i]["build_commit"], res[j]["build_commit"])]_vars

\* two tg rows of model a, of commits b and c, answered in that order
C19_Witness ==
  /\ resp.op = "getComparisonData"
  /\ Len(resp.result) = 2
  /\ PairOf(resp.result[1]) = <<Str(<<"a">>), Str(<<"b">>)>>
  /\ PairOf(resp.result[2]) = <<Str(<<"a">>), Str(<<"c">>)>>

CommitRows(c) == {r \in RowSet(rows) : r["build_commit"] = c}

\* C20: getBuilds answers exactly one row per distinct build_commit of the
\* store, each with the largest test_time of that commit as latest_test, the
\* rows in descending order of latest_test.
C20_BuildsLatestFirst ==
  [][GetBuilds =>
       LET res == resp'.result
           commits == {r["build_commit"] : r \in RowSet(rows)}
       IN /\ {res[k]["build_commit"] : k \in 1..Len(res)} = commits
          /\ Len(res) = Cardinality(commits)
          /\ \A k \in 1..Len(res) :
               IsLatest(res[k]["latest_test"], CommitRows(res[k]["build_commit"]))
          /\ \A i, j \in 1..Len(res) :
               i < j => ~SqlLess(res[i]["latest_test"], res[j]["latest_test"])]_vars

\* two rows of one commit stored at different times: one row is answered,
\* with the later test_time
C20_Witness ==
  /\ resp.op = "getBuilds"
  /\ Len(rows) = 2
  /\ rows[1]["build_commit"] = rows[2]["build_commit"]
  /\ SqlLess(rows[1]["test_time"], rows[2]["test_time"])
  /\ Len(resp.result) = 1
  /\ resp.result[1]["latest_test"] = rows[2]["test_time"]

\* the gpu_info texts of the store that are neither NULL nor empty
StoredGpuInfos ==
  {r["gpu_info"].s : r \in {x \in RowSet(rows) : /\ x["gpu_info"].t = "str"
                                                /\ x["gpu_info"].s # <<>>}}

\* the pieces between the delimiters ', ' of the stored gpu_info texts
GpuPieces == UNION {SeqSet(SplitOn(v, <<",", " ">>)) : v \in StoredGpuInfos}

GpuNamesOf(res) == {res[k]["gpu_info"].s : k \in 1..Len(res)}

StrictlyAscending(res) ==
  \A i, j \in 1..Len(res) :
    i < j => TextLess(res[i]["gpu_info"].s, res[j]["gpu_info"].s)

\* C21 as stated: getGpus answers, ascending and without duplicates, exactly
\* the pieces obtained by splitting every stored non-null, non-empty gpu_info
\* on ', '.
C21_GpuNamesExactlyPieces ==
  [][GetGpus => /\ StrictlyAscending(resp'.result)
                /\ GpuNamesOf(resp'.result) = GpuPieces]_vars

\* C21 as amended: getGpus answers, ascending and without duplicates, exactly
\* the pieces obtained by splitting every stored non-null, non-empty gpu_info
\* on ', ', each piece stripped of its surrounding white space and the pieces
\* that are then empty left out; a name that occurs both alone and inside a
\* multi-GPU text appears once.
C21_GpuNamesTrimmed ==
  [][GetGpus =>
       LET res == resp'.result
       IN /\ StrictlyAscending(res)
          /\ \A name \in GpuNamesOf(res) :
               /\ name # <<>>
               /\ \E piece \in GpuPieces : Trim(piece) = name
          /\ \A piece \in GpuPieces :
               Trim(piece) # <<>> => Trim(piece) \in GpuNamesOf(res)]_vars

\* the store holds 'y' alone and 'x, y': getGpus answers x and y, each once
C21_Witness ==
  /\ resp.op = "getGpus"
  /\ StoredGpuInfos = {<<"y">>, <<"x", ",", " ", "y">>}
  /\ resp.result = <<[gpu_info |-> Str(<<"x">>)], [gpu_info |-> Str(<<"y">>)]>>

\* the rows of the store whose column d holds v
RowsHolding(d, v) == {r \in RowSet(rows) : r[d] = v}

\* res is the list of {value, count} entries of column d: one entry per
\* distinct value of the column that is not NULL, with the number of rows
\* holding it, ascending by value
IsEntryList(res, d) ==
  LET values == {r[d] : r \in RowSet(rows)} \ {Null}
  IN /\ {res[k].value : k \in 1..Len(res)} = values
     /\ Len(res) = Cardinality(values)
     /\ \A k \in 1..Len(res) :
          res[k].count = Num(Cardinality(RowsHolding(d, res[k].value)))
     /\ \A i, j \in 1..Len(res) : i < j => SqlLess(res[i].value, res[j].value)

\* C22: getDimensionValues(dimension) answers the empty sequence when
\* dimension is no registry key and otherwise one {value, count} entry per
\* distinct non-null stored value of that column, count being the number of
\* rows holding the value, ascending by value; getAllDimensionValues answers
\* such a list for every registry key and for no other key.
C22_DimensionValues ==
  [][/\ resp'.op = "getDimensionValues" =>
          \A d \in DimensionNames :
            GetDimensionValues(d) =>
              IF d \in RegistryKeys THEN IsEntryList(resp'.result, d)
              ELSE resp'.result = <<>>
     /\ GetAllDimensionValues =>
          /\ DOMAIN resp'.result = RegistryKeys
          /\ \A d \in RegistryKeys : IsEntryList(resp'.result[d], d)]_vars

\* a pp row and a tg row are stored: n_prompt has the values 0 and 5, once
\* each and in that order, flash_attn has the value 0 twice, backend none
C22_Witness ==
  /\ resp.op = "getAllDimensionValues"
  /\ resp.result["n_prompt"] = <<[value |-> Num(0), count |-> Num(1)],
                                 [value |-> Num(5), count |-> Num(1)]>>
  /\ resp.result["flash_attn"] = <<[value |-> Num(0), count |-> Num(2)]>>
  /\ resp.result["backend"] = <<>>

-----------------------------------------------------------------------------

(* Properties of initialize(), checked under SpecSchema *)

\* the target columns of the reconciliation, with their declared types
TargetColumns ==
  [n_prompt |-> "INTEGER", n_gen |-> "INTEGER", split_mode |-> "TEXT",
   main_gpu |-> "INTEGER", n_depth |-> "INTEGER"]

\* C23: when initialize() finds a benchmarks table, every target column the
\* table lacks is appended with default NULL, every column the table had
\* stays in its place with its name and type, and every row keeps the data
\* it had (and holds NULL in the appended columns).
C23_AdditiveReconciliation ==
  [][(Initialize /\ schema.exists) =>
       LET old == schema.columns
           new == schema'.columns
       IN /\ ~schema'.error
          /\ Len(new) >= Len(old)
          /\ \A i \in 1..Len(old) : new[i] = old[i]
          /\ \A c \in DOMAIN TargetColumns :
               c \notin ColumnNames(old) =>
                 \E i \in (Len(old) + 1)..Len(new) :
                   new[i] = [name |-> c, type |-> TargetColumns[c],
                             dflt |-> "NULL"]
          /\ ColumnNames(new) = ColumnNames(old) \cup DOMAIN TargetColumns
          /\ Len(new) = Cardinality(ColumnNames(new))
          /\ Len(rows') = Len(rows)
          /\ \A i \in 1..Len(rows) :
               /\ \A c \in DOMAIN rows[i] : rows'[i][c] = rows[i][c]
               /\ \A c \in DOMAIN rows'[i] \ DOMAIN rows[i] : rows'[i][c] = Null]_vars

\* initialize() has run once on a table that lacked n_prompt and n_depth and
\* held a row: both columns now follow the column samples, the row holds NULL
\* in them and has kept its model_filename
C23_Witness ==
  /\ schema.up
  /\ schema.runs = 1
  /\ seq = 1
  /\ Len(rows) = 1
  /\ \E i, j, k \in 1..Len(schema.columns) :
       /\ i < j /\ i < k
       /\ schema.columns[i].name = "samples"
       /\ schema.columns[j].name = "n_prompt"
       /\ schema.columns[k].name = "n_depth"
  /\ rows[1]["n_prompt"] = Null
  /\ rows[1]["n_depth"] = Null
  /\ rows[1]["model_filename"] = Str(<<"a">>)

\* C28: once initialize() has completed, on an empty file as well as on the
\* table of an earlier version, the table has every column INSERT_BENCHMARK
\* names, n_depth among them, and no insert of a transformed record fails.
C28_InsertColumnsPresent ==
  /\ ~schema.error
  /\ schema.up =>
       /\ "n_depth" \in ColumnNames(schema.columns)
       /\ InsertColumns \subseteq ColumnNames(schema.columns)
       /\ \A i \in 1..Len(rows) : DOMAIN rows[i] = ColumnNames(schema.columns)
  /\ resp.op = "insertBenchmark" => resp.status = 200

\* the file was empty: CREATE TABLE made the table without n_depth, the
\* migration appended it as the last column, and a record with n_depth = 3
\* has been inserted
C28_Witness ==
  /\ schema.up
  /\ schema.columns[Len(schema.columns)].name = "n_depth"
  /\ SubSeq(schema.columns, 1, Len(schema.columns) - 1) = CreateTableColumns
  /\ resp.op = "insertBenchmark"
  /\ resp.status = 200
  /\ Len(rows) = 1
  /\ rows[1]["n_depth"] = Num(3)

\* C29: initialize() run again on a database it has already initialised adds
\* no column, creates no table and no index, raises no error and leaves
\* every row as it was.
C29_InitializeIdempotent ==
  [][(Initialize /\ schema.runs > 0) =>
       /\ ~schema'.error
       /\ schema'.up
       /\ schema'.exists = schema.exists
       /\ schema'.columns = schema.columns
       /\ schema'.indexes = schema.indexes
       /\ rows' = rows]_vars

\* the process has started twice on a file that holds a row of an earlier
\* version and a row inserted between the two starts
C29_Witness ==
  /\ schema.up
  /\ schema.runs = 2
  /\ Len(rows) = 2
  /\ rows[1]["model_filename"] = Str(<<"a">>)
  /\ resp.op = "insertBenchmark"
  /\ schema.indexes = AllIndexes

-----------------------------------------------------------------------------

(* Properties of parseJsonl, checked under SpecParse *)

\* ls are the lines of text: no line holds a newline and the lines, joined by
\* newlines, are the text
AreLinesOf(ls, text) ==
  /\ \A i \in 1..Len(ls) : \A k \in 1..Len(ls[i]) : ls[i][k] # "\n"
  /\ JoinLines(ls) = text

\* the positions of the lines that are not blank
KeptPositions(ls) ==
  {i \in 1..Len(ls) : \E k \in 1..Len(ls[i]) : ~IsSpace(ls[i][k])}

\* the j-th of them, counted from the top
NthKept(ls, j) ==
  CHOOSE i \in KeptPositions(ls) :
    Cardinality({h \in KeptPositions(ls) : h < i}) = j - 1

\* C24: parseJsonl(text) splits text on newline, leaves out the lines that
\* hold white space only and returns the parsed value of every other line, in
\* the order of the lines; when one of those lines is not valid JSON it
\* throws and returns nothing.
C24_ParseJsonl ==
  out.done =>
    LET ls == Split(raw, "\n")
        kept == KeptPositions(ls)
    IN /\ AreLinesOf(ls, raw)
       /\ IF \A i \in kept : JsonValid(ls[i])
          THEN /\ ~out.threw
               /\ Len(out.rec) = Cardinality(kept)
               /\ \A j \in 1..Len(out.rec) :
                    out.rec[j] = JsonParse(ls[NthKept(ls, j)])
          ELSE /\ out.threw
               /\ out.rec = <<>>

\* a blank line between two objects: the two objects are returned in order
C24_Witness ==
  /\ out.done
  /\ raw = <<"B", " ", "\n", " ", "\n", "A">>
  /\ ~out.threw
  /\ out.rec = <<ObjectB, ObjectA>>

\* an object followed by a line that is no JSON: nothing is returned
C24_WitnessThrows ==
  /\ out.done
  /\ raw = <<"A", "\n", "x">>
  /\ out.threw
  /\ out.rec = <<>>

-----------------------------------------------------------------------------

(* Properties of formatBenchmark, checked under SpecTransform *)

\* C25: formatBenchmark(transformBenchmark(raw)).samples is raw.samples when
\* raw.samples is an array and the empty array when raw.samples is absent;
\* formatBenchmark leaves its argument as it was; model_size_gb is null when
\* model_size is null and model_params_b is null when model_n_params is null.
C25_FormatRoundTrip ==
  [][FormatBenchmark =>
       LET given == Prop(raw, "samples")
           res == resp'.result
       IN /\ out' = out
          /\ given.t = "arr" => resp'.status = 200 /\ res["samples"] = given
          /\ given.t = "undef" =>
               resp'.status = 200 /\ res["samples"] = Arr(<<>>)
          /\ resp'.status = 200 =>
               /\ out.rec["model_size"] = Null => res["model_size_gb"] = Null
               /\ out.rec["model_n_params"] = Null =>
                    res["model_params_b"] = Null]_vars

\* samples [-3, 10] with a model of 1.5 GB and no parameter count
C25_Witness ==
  /\ resp.op = "formatBenchmark"
  /\ Prop(raw, "samples") = Arr(<<0 - 3, 10>>)
  /\ out.rec["samples"] = Str(<<"[", "-", "3", ",", "1", "0", "]">>)
  /\ resp.result["samples"] = Arr(<<0 - 3, 10>>)
  /\ resp.result["model_size_gb"] = Str(<<"1", ".", "5", "0">>)
  /\ resp.result["model_params_b"] = Null

-----------------------------------------------------------------------------

(* Properties of the listing routes, checked under SpecQueries *)

\* what the listing routes are to pass for a query parameter: the number a
\* well-formed numeric text denotes, and the default otherwise
PassedThrough(value, dflt) ==
  IF value.t = "str" /\ IsIntegerText(value.s)
  THEN Num(IntegerTextValue(value.s))
  ELSE Num(dflt)

ListedWith(q, limit) ==
  {<<"limit", PassedThrough(q.limit, limit)>>,
   <<"offset", PassedThrough(q.offset, 0)>>}

\* C26: the listing routes hand getBenchmarks the default (limit 100 for
\* GET /api/benchmarks, 50 for the pages, offset 0) when limit or offset is
\* absent or no number, without an error, and the caller's number unchanged
\* when it is well-formed.
C26_ListingDefaults ==
  [][/\ resp'.op = "GET /api/benchmarks" =>
          \A q \in ListQueries :
            ApiBenchmarks(q) =>
              resp'.status = 200 /\ resp'.query.params = ListedWith(q, 100)
     /\ resp'.op \in PageRoutes =>
          \A q \in ListQueries :
            PageBenchmarks(resp'.op, q) =>
              resp'.status = 200 /\ resp'.query.params = ListedWith(q, 50)]_vars

\* C26 for every query but limit=0: the default is used for an absent and
\* for a malformed parameter, and 1 is passed through
C26_ListingDefaultsButZero ==
  [][/\ resp'.op = "GET /api/benchmarks" =>
          \A q \in ListQueries :
            (ApiBenchmarks(q) /\ q.limit # Str(<<"0">>)) =>
              resp'.status = 200 /\ resp'.query.params = ListedWith(q, 100)
     /\ resp'.op \in PageRoutes =>
          \A q \in ListQueries :
            (PageBenchmarks(resp'.op, q) /\ q.limit # Str(<<"0">>)) =>
              resp'.status = 200 /\ resp'.query.params = ListedWith(q, 50)]_vars

-----------------------------------------------------------------------------

(* The stored test type, checked under Spec *)

\* a stored value as getTestType is to read it: NULL is an absent count
AbsentIfNull(v) == IF v = Null THEN Undefined ELSE v

\* the row's test_type is the one its own stored token counts give
TestTypeAgrees(r) ==
  r["test_type"] =
    getTestType(AbsentIfNull(r["n_prompt"]), AbsentIfNull(r["n_gen"]))

\* C27: in every reachable state every row of the store has the test_type
\* that getTestType gives for the row's own stored n_prompt and n_gen.
C27_TestTypeOfStoredCounts == \A i \in 1..Len(rows) : TestTypeAgrees(rows[i])

\* the same for the rows whose counts are stored as they were submitted,
\* which are all rows but those of a count written as numeric text
C27_TestTypeOfNumericCounts ==
  [][\A i \in 1..Len(rows') :
       (/\ tx'.pc = "insertMany"
        /\ i > Len(tx'.snapRows)
        /\ i - Len(tx'.snapRows) <= Len(tx'.items)
        /\ rows'[i]["n_prompt"] = tx'.items[i - Len(tx'.snapRows)]["n_prompt"]
        /\ rows'[i]["n_gen"] = tx'.items[i - Len(tx'.snapRows)]["n_gen"])
         => TestTypeAgrees(rows'[i])]_vars

\* the stored rows that pass the test-type, model and dimension filters of
\* getDimensionalTrends called with o
PassingTrendFilters(o) ==
  {r \in RowSet(rows) :
     /\ ListOr(o.testTypes, <<PP, TG>>) # <<>> =>
          SqlInList("test_type", r["test_type"], ListOr(o.testTypes, <<PP, TG>>))
     /\ ListOr(o.models, <<>>) # <<>> =>
          SqlInList("model_filename", r["model_filename"], ListOr(o.models, <<>>))
     /\ MatchesFilters(r, ListOr(o.filters, <<>>))}

\* the options GET /trends hands getBenchmarksFiltered next to the options o
\* it hands getDimensionalTrends
SameFilters(o) ==
  [models |-> o.models, gpus |-> NotGiven, testTypes |-> o.testTypes,
   mainGpus |-> NotGiven, splitModes |-> NotGiven,
   dimensionFilters |-> o.filters, limit |-> Undefined]

\* the row r is counted in the group the answered line stands for
CountedIn(r, line, o) ==
  \A c \in SeqSet(AllGroupBy(ListOr(o.groupByDimensions, <<>>))) : line[c] = r[c]

RECURSIVE SampleCountSum(_)
SampleCountSum(res) ==
  IF res = <<>> THEN 0
  ELSE res[1]["sample_count"].n + SampleCountSum(Tail(res))

\* C30: the groups getDimensionalTrends answers partition the filtered rows:
\* every stored row that passes the test-type, model and dimension filters is
\* counted in exactly one answered group, the sample_count values add up to
\* the number of these rows, and that number is the number of rows
\* getBenchmarksFiltered answers for the same filters when it is within its
\* limit.
C30_GroupsPartitionFilteredRows ==
  [][resp'.op = "getDimensionalTrends" =>
       \A o \in DimensionalOptions :
         GetDimensionalTrends(o) =>
           LET res == resp'.result
               S == PassingTrendFilters(o)
           IN /\ \A r \in S :
                   Cardinality({k \in 1..Len(res) : CountedIn(r, res[k], o)}) = 1
              /\ \A k \in 1..Len(res) :
                   res[k]["sample_count"] =
                     Num(Cardinality({r \in S : CountedIn(r, res[k], o)}))
              /\ SampleCountSum(res) = Cardinality(S)
              /\ Cardinality(S) <= DefaultLimit =>
                   \A b \in getBenchmarksFiltered(rows, SameFilters(o)) :
                     Len(b) = Cardinality(S)]_vars

\* two stored rows pass the filters and are answered as one group of two
C30_Witness ==
  /\ resp.op = "getDimensionalTrends"
  /\ Len(rows) = 2
  /\ Len(resp.result) = 1
  /\ resp.result[1]["sample_count"] = Num(2)

\* two stored rows of which one passes the filters: one group of one
C30_WitnessFiltered ==
  /\ resp.op = "getDimensionalTrends"
  /\ Len(rows) = 2
  /\ Len(resp.result) = 1
  /\ resp.result[1]["sample_count"] = Num(1)

====
